---- MODULE Spec2Model ----
(***************************************************************************)
(* Model of crypto-project-go: the two-stage ingestion pipeline of         *)
(* cmd/fetchdata.go (main, downloadWorker, saveWorker) and the backward    *)
(* paginating backfill of pkg/cryptocompare/client.go (fetchAllOHLCVData). *)
(***************************************************************************)
EXTENDS Integers, Sequences, FiniteSets, TLC

\* ------------------------------------------------------------------------
\* Bounds of the model
\* ------------------------------------------------------------------------
\* number of configured trading symbols in the exhaustive pipeline runs
NumSymbols == 1
\* number of configured trading symbols in the scripted long runs
LoadSymbols == 4
\* largest bar timestamp the stub upstream serves
MaxTime == 2
\* most bars the stub upstream puts in one page
MaxPageLen == 2
\* most fetchPage calls of one backfill the stub upstream answers with data
MaxCalls == 2
\* most bars of a series a backfill has accumulated when its loop ends
MaxSeriesLen == 3
\* most bars of the series of one save job
MaxBatchLen == 2
\* most save jobs run against the store
MaxRuns == 2

\* ------------------------------------------------------------------------
\* Program constants
\* ------------------------------------------------------------------------
\* make(chan downloadJob, 10)
DownloadChanCap == 10
\* make(chan saveJob, 10)
SaveChanCap == 10
\* apiMaxLimit
apiMaxLimit == 2000

\* ------------------------------------------------------------------------
\* Values
\* ------------------------------------------------------------------------
\* the error value nil
NoErr == "nil"
\* some non-nil error
SomeErr == "error"

\* cryptocompare.OHLCVData
OHLCVData(t, o, h, l, c, vf, vt) ==
    [Time |-> t, Open |-> o, High |-> h, Low |-> l, Close |-> c,
     VolumeFrom |-> vf, VolumeTo |-> vt]

\* a Go slice of OHLCVData: nil, or a (possibly empty) sequence of bars
NilSlice == [isNil |-> TRUE, bars |-> <<>>]
Slice(s) == [isNil |-> FALSE, bars |-> s]

\* append(a, b...): appending nothing to a nil slice leaves it nil
AppendSlice(a, b) ==
    IF a.isNil /\ Len(b.bars) = 0 THEN NilSlice ELSE Slice(a.bars \o b.bars)

\* the timeframes main iterates over, in order
Timeframes == <<"hourly", "daily", "minute">>

\* names available as configured trading symbols
SymbolNames == <<"BTC", "ETH", "SOL", "ADA", "XRP", "DOT", "LTC", "BNB">>

\* the configured quote currency
VsCurrency == "USD"

VARIABLES
    \* ---- pipeline (cmd/fetchdata.go) ----
    tradingSymbols,   \* conf.Fetch.TradingSymbols
    limits,           \* limits, one per timeframe
    stub,             \* what the remote API and the store may answer, per job
    mainpc,           \* position of main
    next,             \* index of the next job main submits
    counter,          \* the sync.WaitGroup counter
    downloadChannel,  \* buffered channel of downloadJob
    saveChannel,      \* buffered channel of saveJob
    dlpc,             \* position of downloadWorker
    dlJob,            \* downloadWorker: job
    dlData,           \* downloadWorker: data
    dlErr,            \* downloadWorker: err
    dlFetched,        \* history: what the client returned for job, unfiltered
    svpc,             \* position of saveWorker
    svJob,            \* saveWorker: job
    svErr,            \* saveWorker: err
    hist,             \* per job: what has happened to it so far (history)
    closed,           \* the channels main's deferred close calls have closed, in order
    \* ---- backfill (pkg/cryptocompare/client.go) ----
    bfpc,             \* position of fetchAllOHLCVData
    allData,          \* fetchAllOHLCVData: allData
    toTs,             \* fetchAllOHLCVData: toTs
    retData,          \* fetchAllOHLCVData: returned slice
    retErr,           \* fetchAllOHLCVData: returned error
    pages,            \* history: answer of every fetchOHLCVDataWithTs call
    cursors,          \* history: toTs of every fetchOHLCVDataWithTs call
    \* ---- the end of a backfill (FetchAll*OHLCVData) ----
    trimpc,           \* position of FetchAll*OHLCVData after the loop
    endpoint,         \* the endpoint of the backfill
    merged,           \* the merged, sorted series
    trimmed,          \* the series FetchAll*OHLCVData returns
    \* ---- the store (pkg/db/db.go, pkg/models/models.go) ----
    tables,           \* the rows of each table, in the order they were inserted
    nextID,           \* per table: the next value of the ID sequence
    dbJob,            \* the save job of the latest upsert (before it: without data)
    dbErr,            \* history: the error the latest upsert returned
    dbRuns,           \* history: the number of upserts so far
    dbRejectAt,       \* history: the index of the model the store rejected, or 0
    qpc,              \* position of a Get*OHLCData call
    qArgs,            \* the arguments of the call
    qRet,             \* what the call returned
    \* ---- one page fetch of the client (fetchOHLCVData, fetchOHLCVDataWithTs) ----
    apipc,            \* position of the fetch
    apiArgs,          \* the arguments of the fetch
    apiReq,           \* the URL requested
    apiHttp,          \* history: the HTTP exchange
    apiRet            \* what the fetch returned

pipeVars == <<tradingSymbols, limits, stub, mainpc, next, counter,
              downloadChannel, saveChannel, dlpc, dlJob, dlData, dlErr,
              dlFetched, svpc, svJob, svErr, hist, closed>>
bfVars == <<bfpc, allData, toTs, retData, retErr, pages, cursors>>
trimVars == <<trimpc, endpoint, merged, trimmed>>
dbVars == <<tables, nextID, dbJob, dbErr, dbRuns, dbRejectAt, qpc, qArgs, qRet>>
apiVars == <<apipc, apiArgs, apiReq, apiHttp, apiRet>>
\* the state of the packages, which the pipeline reaches only through calls
libVars == <<trimVars, dbVars, apiVars>>
vars == <<pipeVars, closed, bfVars, libVars>>

\* ------------------------------------------------------------------------
\* Pure helpers of cmd/fetchdata.go
\* ------------------------------------------------------------------------
\* mutant: a bar counts as invalid as soon as one of its prices is zero
IsInvalidOHLC_AnyZero(d) == d.Open = 0 \/ d.High = 0 \/ d.Low = 0 \/ d.Close = 0

\* the test of removeInvalidOHLCVData: open, high, low and close all zero
IsInvalidOHLC(d) == d.Open = 0 /\ d.High = 0 /\ d.Low = 0 /\ d.Close = 0

\* the loop of removeInvalidOHLCVData, from index i down to the first bar
RECURSIVE RemoveInvalidFrom(_, _)
RemoveInvalidFrom(bars, i) ==
    IF i < 1 THEN bars
    ELSE IF IsInvalidOHLC(bars[i])
         THEN RemoveInvalidFrom(SubSeq(bars, 1, i - 1) \o SubSeq(bars, i + 1, Len(bars)), i - 1)
         ELSE RemoveInvalidFrom(bars, i - 1)

removeInvalidOHLCVData(data) ==
    [isNil |-> data.isNil, bars |-> RemoveInvalidFrom(data.bars, Len(data.bars))]

\* ------------------------------------------------------------------------
\* Jobs
\* ------------------------------------------------------------------------
NumJobs == Len(tradingSymbols) * Len(Timeframes)

\* the j-th downloadJob main builds (symbols outer loop, timeframes inner)
JobAt(j) ==
    LET s == ((j - 1) \div Len(Timeframes)) + 1
        t == ((j - 1) % Len(Timeframes)) + 1
    IN [symbol |-> tradingSymbols[s], vsCurrency |-> VsCurrency,
        timeframe |-> Timeframes[t], limit |-> limits[t]]

\* the index of the job a downloadJob or saveJob belongs to
JobIndex(job) ==
    CHOOSE j \in 1..NumJobs :
        JobAt(j).symbol = job.symbol /\ JobAt(j).timeframe = job.timeframe

NoJob == [symbol |-> "", vsCurrency |-> "", timeframe |-> "", limit |-> 0]
NoSaveJob == [symbol |-> "", vsCurrency |-> "", timeframe |-> "", data |-> NilSlice]

\* bars the stub upstream serves to the pipeline
BarGood(t) == OHLCVData(t, 1, 2, 1, 1, 1, 1)
BarZeroOHLC(t) == OHLCVData(t, 0, 0, 0, 0, 0, 0)
BarZeroOpen(t) == OHLCVData(t, 0, 2, 1, 1, 1, 1)

\* series the stub upstream serves to the pipeline
SampleSeries ==
    { <<BarZeroOHLC(1), BarZeroOpen(2), BarGood(3)>> }

\* every (data, err) pair a fetch of the client can hand to downloadWorker
FetchResults ==
    {[data |-> NilSlice, err |-> e] : e \in {NoErr, SomeErr}}
    \cup {[data |-> Slice(s), err |-> e] : s \in SampleSeries, e \in {NoErr, SomeErr}}

\* every error value an upsert can return
SaveResults == {NoErr, SomeErr}

\* a call of a method of the client: with a limit argument or without one
Call(method, symbol, vsCurrency, hasLimit, limit) ==
    [method |-> method, symbol |-> symbol, vsCurrency |-> vsCurrency,
     hasLimit |-> hasLimit, limit |-> limit]

NoCall == Call("", "", "", FALSE, 0)

NoHist == [adds |-> 0, dones |-> 0, taken |-> 0, fetches |-> 0, fetch |-> "none",
           call |-> NoCall, fwd |-> 0, upserts |-> 0, save |-> "none"]

NoFetch == [data |-> NilSlice, err |-> NoErr]

\* a fetch result with no data at all and an error, or anything else
FetchKind(r) == IF r.data.isNil /\ r.err # NoErr THEN "hard" ELSE "data"

\* ------------------------------------------------------------------------
\* main
\* ------------------------------------------------------------------------
\* mutant: main submits a job without wg.Add(1)
MainAdd_NoAdd ==
    /\ mainpc = "add"
    /\ mainpc' = "send"
    /\ UNCHANGED <<tradingSymbols, limits, stub, next, counter, downloadChannel, saveChannel,
                   dlpc, dlJob, dlData, dlErr, dlFetched, svpc, svJob, svErr, hist,
                   closed, bfVars, libVars>>

\* wg.Add(1) of the submission loop
MainAdd ==
    /\ mainpc = "add"
    /\ counter' = counter + 1
    /\ hist' = [hist EXCEPT ![next].adds = @ + 1]
    /\ mainpc' = "send"
    /\ UNCHANGED <<tradingSymbols, limits, stub, next, downloadChannel, saveChannel,
                   dlpc, dlJob, dlData, dlErr, dlFetched, svpc, svJob, svErr, closed, bfVars, libVars>>

\* mutant: the send does not wait for room in the channel
MainSend_NoBlock ==
    /\ mainpc = "send"
    /\ downloadChannel' = Append(downloadChannel, JobAt(next))
    /\ next' = next + 1
    /\ mainpc' = IF next + 1 > NumJobs THEN "wait" ELSE "add"
    /\ UNCHANGED <<tradingSymbols, limits, stub, counter, saveChannel,
                   dlpc, dlJob, dlData, dlErr, dlFetched, svpc, svJob, svErr, hist, closed, bfVars, libVars>>

\* downloadChannel <- downloadJob{...}: blocks while the channel is full
MainSend ==
    /\ mainpc = "send"
    /\ Len(downloadChannel) < DownloadChanCap
    /\ downloadChannel' = Append(downloadChannel, JobAt(next))
    /\ next' = next + 1
    /\ mainpc' = IF next + 1 > NumJobs THEN "wait" ELSE "add"
    /\ UNCHANGED <<tradingSymbols, limits, stub, counter, saveChannel,
                   dlpc, dlJob, dlData, dlErr, dlFetched, svpc, svJob, svErr, hist, closed, bfVars, libVars>>

\* wg.Wait() returns once the counter is zero
MainWait ==
    /\ mainpc = "wait"
    /\ counter = 0
    /\ mainpc' = "done"
    /\ UNCHANGED <<tradingSymbols, limits, stub, next, counter, downloadChannel,
                   saveChannel, dlpc, dlJob, dlData, dlErr, dlFetched, svpc, svJob, svErr,
                   hist, closed, bfVars, libVars>>

\* the deferred calls of main in the order they run when main returns: last
\* deferred first
DeferredCloses == <<"saveChannel", "downloadChannel">>

\* channel ch has been closed
IsClosed(ch) == \E i \in 1..Len(closed) : closed[i] = ch

\* mutant: the deferred calls run while main still waits in wg.Wait()
MainClose_BeforeWait ==
    /\ mainpc \in {"wait", "done"}
    /\ Len(closed) < Len(DeferredCloses)
    /\ closed' = Append(closed, DeferredCloses[Len(closed) + 1])
    /\ UNCHANGED <<tradingSymbols, limits, stub, mainpc, next, counter, downloadChannel,
                   saveChannel, dlpc, dlJob, dlData, dlErr, dlFetched, svpc, svJob, svErr,
                   hist, bfVars, libVars>>

\* defer close(downloadChannel); defer close(saveChannel): run one after the
\* other when main returns
MainClose ==
    /\ mainpc = "done"
    /\ Len(closed) < Len(DeferredCloses)
    /\ closed' = Append(closed, DeferredCloses[Len(closed) + 1])
    /\ UNCHANGED <<tradingSymbols, limits, stub, mainpc, next, counter, downloadChannel,
                   saveChannel, dlpc, dlJob, dlData, dlErr, dlFetched, svpc, svJob, svErr,
                   hist, bfVars, libVars>>

\* ------------------------------------------------------------------------
\* downloadWorker
\* ------------------------------------------------------------------------
\* for job := range downloadChannel ends once the channel is closed and empty
DlExit ==
    /\ dlpc = "recv"
    /\ IsClosed("downloadChannel")
    /\ Len(downloadChannel) = 0
    /\ dlpc' = "exit"
    /\ UNCHANGED <<tradingSymbols, limits, stub, mainpc, next, counter, downloadChannel,
                   saveChannel, dlJob, dlData, dlErr, dlFetched, svpc, svJob, svErr,
                   hist, closed, bfVars, libVars>>

\* for job := range downloadChannel
DlRecv ==
    /\ dlpc = "recv"
    /\ mainpc # "done"
    /\ Len(downloadChannel) > 0
    /\ dlJob' = Head(downloadChannel)
    /\ downloadChannel' = Tail(downloadChannel)
    /\ hist' = [hist EXCEPT ![JobIndex(Head(downloadChannel))].taken = @ + 1]
    /\ dlpc' = "fetch"
    /\ UNCHANGED <<tradingSymbols, limits, stub, mainpc, next, counter, saveChannel,
                   dlData, dlErr, dlFetched, svpc, svJob, svErr, closed, bfVars, libVars>>

\* mutant: a job of limit 0 is a full-history job too
ClientCall_ZeroIsAll(job) ==
    LET fetchAll == job.limit <= 0
        Pick(all, page) ==
            IF fetchAll THEN Call(all, job.symbol, job.vsCurrency, FALSE, 0)
            ELSE Call(page, job.symbol, job.vsCurrency, TRUE, job.limit)
    IN CASE job.timeframe = "hourly" -> Pick("FetchAllHourlyOHLCVData", "FetchHourlyOHLCVData")
         [] job.timeframe = "daily"  -> Pick("FetchAllDailyOHLCVData", "FetchDailyOHLCVData")
         [] job.timeframe = "minute" -> Pick("FetchAllMinuteOHLCVData", "FetchMinuteOHLCVData")

\* fetchAll := job.limit < 0 and the switch on job.timeframe: the method of
\* the client downloadWorker calls for job, and its arguments
ClientCall(job) ==
    LET fetchAll == job.limit < 0
        Pick(all, page) ==
            IF fetchAll THEN Call(all, job.symbol, job.vsCurrency, FALSE, 0)
            ELSE Call(page, job.symbol, job.vsCurrency, TRUE, job.limit)
    IN CASE job.timeframe = "hourly" -> Pick("FetchAllHourlyOHLCVData", "FetchHourlyOHLCVData")
         [] job.timeframe = "daily"  -> Pick("FetchAllDailyOHLCVData", "FetchDailyOHLCVData")
         [] job.timeframe = "minute" -> Pick("FetchAllMinuteOHLCVData", "FetchMinuteOHLCVData")

\* the switch on job.timeframe: one call of the client, or return on an
\* invalid timeframe
DlFetch ==
    /\ dlpc = "fetch"
    /\ mainpc # "done"
    /\ IF dlJob.timeframe \in {"hourly", "daily", "minute"}
       THEN \E r \in stub[JobIndex(dlJob)].fetch :
               /\ dlData' = r.data
               /\ dlErr' = r.err
               /\ dlFetched' = r
               /\ hist' = [hist EXCEPT ![JobIndex(dlJob)].fetches = @ + 1,
                                       ![JobIndex(dlJob)].fetch = FetchKind(r),
                                       ![JobIndex(dlJob)].call = ClientCall(dlJob)]
               /\ dlpc' = "check"
       ELSE /\ dlpc' = "defer"
            /\ UNCHANGED <<dlData, dlErr, dlFetched, hist>>
    /\ UNCHANGED <<tradingSymbols, limits, stub, mainpc, next, counter,
                   downloadChannel, saveChannel, dlJob, svpc, svJob, svErr, closed, bfVars, libVars>>

\* mutant: the hard-failure return skips the completion signal
DlDrop_NoDone ==
    /\ dlpc = "check"
    /\ mainpc # "done"
    /\ dlData.isNil /\ dlErr # NoErr
    /\ dlJob' = NoJob
    /\ dlData' = NilSlice
    /\ dlErr' = NoErr
    /\ dlFetched' = NoFetch
    /\ dlpc' = "recv"
    /\ UNCHANGED <<tradingSymbols, limits, stub, mainpc, next, counter,
                   downloadChannel, saveChannel, svpc, svJob, svErr, hist, closed, bfVars, libVars>>

\* mutant: the hard-failure branch logs and falls through to forwarding
DlDrop_FallThrough ==
    /\ dlpc = "check"
    /\ mainpc # "done"
    /\ dlData.isNil /\ dlErr # NoErr
    /\ dlpc' = "add"
    /\ UNCHANGED <<tradingSymbols, limits, stub, mainpc, next, counter,
                   downloadChannel, saveChannel, dlJob, dlData, dlErr, dlFetched,
                   svpc, svJob, svErr, hist, closed, bfVars, libVars>>

\* mutant: a fetch that failed without data is tried again
DlDrop_Retry ==
    /\ dlpc = "check"
    /\ mainpc # "done"
    /\ dlData.isNil /\ dlErr # NoErr
    /\ dlpc' = "fetch"
    /\ UNCHANGED <<tradingSymbols, limits, stub, mainpc, next, counter,
                   downloadChannel, saveChannel, dlJob, dlData, dlErr, dlFetched,
                   svpc, svJob, svErr, hist, closed, bfVars, libVars>>

\* if data == nil && err != nil { log; return }
DlDrop ==
    /\ dlpc = "check"
    /\ mainpc # "done"
    /\ dlData.isNil /\ dlErr # NoErr
    /\ dlpc' = "defer"
    /\ UNCHANGED <<tradingSymbols, limits, stub, mainpc, next, counter,
                   downloadChannel, saveChannel, dlJob, dlData, dlErr, dlFetched,
                   svpc, svJob, svErr, hist, closed, bfVars, libVars>>

\* mutant: any error of the fetch, partial data or not, drops the job
DlKeep_DropOnErr ==
    /\ dlpc = "check"
    /\ mainpc # "done"
    /\ ~(dlData.isNil /\ dlErr # NoErr)
    /\ dlData' = IF dlJob.limit < 0 THEN removeInvalidOHLCVData(dlData) ELSE dlData
    /\ dlpc' = IF dlErr # NoErr THEN "defer" ELSE "add"
    /\ UNCHANGED <<tradingSymbols, limits, stub, mainpc, next, counter,
                   downloadChannel, saveChannel, dlJob, dlErr, dlFetched,
                   svpc, svJob, svErr, hist, closed, bfVars, libVars>>

\* mutant: a fetch that returned no bar ends the job like a failed one
DlKeep_DropEmpty ==
    /\ dlpc = "check"
    /\ mainpc # "done"
    /\ ~(dlData.isNil /\ dlErr # NoErr)
    /\ dlData' = IF dlJob.limit < 0 THEN removeInvalidOHLCVData(dlData) ELSE dlData
    /\ dlpc' = IF Len(dlData.bars) = 0 THEN "defer" ELSE "add"
    /\ UNCHANGED <<tradingSymbols, limits, stub, mainpc, next, counter,
                   downloadChannel, saveChannel, dlJob, dlErr, dlFetched,
                   svpc, svJob, svErr, hist, closed, bfVars, libVars>>

\* mutant: the series is filtered whatever the limit of the job
DlKeep_FilterAlways ==
    /\ dlpc = "check"
    /\ mainpc # "done"
    /\ ~(dlData.isNil /\ dlErr # NoErr)
    /\ dlData' = removeInvalidOHLCVData(dlData)
    /\ dlpc' = "add"
    /\ UNCHANGED <<tradingSymbols, limits, stub, mainpc, next, counter,
                   downloadChannel, saveChannel, dlJob, dlErr, dlFetched,
                   svpc, svJob, svErr, hist, closed, bfVars, libVars>>

\* otherwise: log, and if fetchAll { data = removeInvalidOHLCVData(data) }
DlKeep ==
    /\ dlpc = "check"
    /\ mainpc # "done"
    /\ ~(dlData.isNil /\ dlErr # NoErr)
    /\ dlData' = IF dlJob.limit < 0 THEN removeInvalidOHLCVData(dlData) ELSE dlData
    /\ dlpc' = "add"
    /\ UNCHANGED <<tradingSymbols, limits, stub, mainpc, next, counter,
                   downloadChannel, saveChannel, dlJob, dlErr, dlFetched,
                   svpc, svJob, svErr, hist, closed, bfVars, libVars>>

\* mutant: the job is forwarded without job.wg.Add(1)
DlAdd_NoAdd ==
    /\ dlpc = "add"
    /\ mainpc # "done"
    /\ dlpc' = "send"
    /\ UNCHANGED <<tradingSymbols, limits, stub, mainpc, next, counter, downloadChannel,
                   saveChannel, dlJob, dlData, dlErr, dlFetched, svpc, svJob, svErr,
                   hist, closed, bfVars, libVars>>

\* job.wg.Add(1) before forwarding
DlAdd ==
    /\ dlpc = "add"
    /\ mainpc # "done"
    /\ counter' = counter + 1
    /\ hist' = [hist EXCEPT ![JobIndex(dlJob)].adds = @ + 1]
    /\ dlpc' = "send"
    /\ UNCHANGED <<tradingSymbols, limits, stub, mainpc, next, downloadChannel,
                   saveChannel, dlJob, dlData, dlErr, dlFetched, svpc, svJob, svErr, closed, bfVars, libVars>>

\* saveChannel <- saveJob{...}: blocks while the channel is full
DlSend ==
    /\ dlpc = "send"
    /\ mainpc # "done"
    /\ Len(saveChannel) < SaveChanCap
    /\ saveChannel' = Append(saveChannel,
           [symbol |-> dlJob.symbol, vsCurrency |-> dlJob.vsCurrency,
            timeframe |-> dlJob.timeframe, data |-> dlData])
    /\ hist' = [hist EXCEPT ![JobIndex(dlJob)].fwd = @ + 1]
    /\ dlpc' = "defer"
    /\ UNCHANGED <<tradingSymbols, limits, stub, mainpc, next, counter,
                   downloadChannel, dlJob, dlData, dlErr, dlFetched, svpc, svJob, svErr, closed, bfVars, libVars>>

\* defer job.wg.Done()
DlDone ==
    /\ dlpc = "defer"
    /\ mainpc # "done"
    /\ counter' = counter - 1
    /\ hist' = [hist EXCEPT ![JobIndex(dlJob)].dones = @ + 1]
    /\ dlJob' = NoJob
    /\ dlData' = NilSlice
    /\ dlErr' = NoErr
    /\ dlFetched' = NoFetch
    /\ dlpc' = "recv"
    /\ UNCHANGED <<tradingSymbols, limits, stub, mainpc, next, downloadChannel,
                   saveChannel, svpc, svJob, svErr, closed, bfVars, libVars>>

\* ------------------------------------------------------------------------
\* saveWorker
\* ------------------------------------------------------------------------
\* for job := range saveChannel ends once the channel is closed and empty
SvExit ==
    /\ svpc = "recv"
    /\ IsClosed("saveChannel")
    /\ Len(saveChannel) = 0
    /\ svpc' = "exit"
    /\ UNCHANGED <<tradingSymbols, limits, stub, mainpc, next, counter, downloadChannel,
                   saveChannel, dlpc, dlJob, dlData, dlErr, dlFetched, svJob, svErr,
                   hist, closed, bfVars, libVars>>

\* for job := range saveChannel
SvRecv ==
    /\ svpc = "recv"
    /\ mainpc # "done"
    /\ Len(saveChannel) > 0
    /\ svJob' = Head(saveChannel)
    /\ saveChannel' = Tail(saveChannel)
    /\ svpc' = "upsert"
    /\ UNCHANGED <<tradingSymbols, limits, stub, mainpc, next, counter,
                   downloadChannel, dlpc, dlJob, dlData, dlErr, dlFetched, svErr, hist, closed, bfVars, libVars>>

\* what the upsert of a save job can return: the loop over an empty batch
\* creates nothing and returns nil, any other batch may be rejected
SaveOutcomes(job) ==
    IF Len(job.data.bars) = 0 THEN {NoErr} ELSE stub[JobIndex(job)].save

\* the switch on job.timeframe: map the bars and upsert them, then log
SvUpsert ==
    /\ svpc = "upsert"
    /\ mainpc # "done"
    /\ IF svJob.timeframe \in {"hourly", "daily", "minute"}
       THEN \E e \in SaveOutcomes(svJob) :
               /\ svErr' = e
               /\ hist' = [hist EXCEPT ![JobIndex(svJob)].upserts = @ + 1,
                                       ![JobIndex(svJob)].save =
                                           IF e = NoErr THEN "ok" ELSE "err"]
       ELSE UNCHANGED <<svErr, hist>>
    /\ svpc' = "defer"
    /\ UNCHANGED <<tradingSymbols, limits, stub, mainpc, next, counter,
                   downloadChannel, saveChannel, dlpc, dlJob, dlData, dlErr, dlFetched,
                   svJob, closed, bfVars, libVars>>

\* mutant: a failed upsert ends the worker's loop
SvDone_StopOnError ==
    /\ svpc = "defer"
    /\ mainpc # "done"
    /\ counter' = counter - 1
    /\ hist' = [hist EXCEPT ![JobIndex(svJob)].dones = @ + 1]
    /\ svJob' = NoSaveJob
    /\ svErr' = NoErr
    /\ svpc' = IF svErr # NoErr THEN "exit" ELSE "recv"
    /\ UNCHANGED <<tradingSymbols, limits, stub, mainpc, next, downloadChannel,
                   saveChannel, dlpc, dlJob, dlData, dlErr, dlFetched, closed, bfVars, libVars>>

\* mutant: the save stage finishes a job without job.wg.Done()
SvDone_NoDone ==
    /\ svpc = "defer"
    /\ mainpc # "done"
    /\ svJob' = NoSaveJob
    /\ svErr' = NoErr
    /\ svpc' = "recv"
    /\ UNCHANGED <<tradingSymbols, limits, stub, mainpc, next, counter, downloadChannel,
                   saveChannel, dlpc, dlJob, dlData, dlErr, dlFetched, hist, closed, bfVars, libVars>>

\* defer job.wg.Done()
SvDone ==
    /\ svpc = "defer"
    /\ mainpc # "done"
    /\ counter' = counter - 1
    /\ hist' = [hist EXCEPT ![JobIndex(svJob)].dones = @ + 1]
    /\ svJob' = NoSaveJob
    /\ svErr' = NoErr
    /\ svpc' = "recv"
    /\ UNCHANGED <<tradingSymbols, limits, stub, mainpc, next, downloadChannel,
                   saveChannel, dlpc, dlJob, dlData, dlErr, dlFetched, closed, bfVars, libVars>>

\* ------------------------------------------------------------------------
\* The stubbed collaborators of the pipeline
\* ------------------------------------------------------------------------
\* limits: {-1, -1, -1} under -fetch-all, else the three configured limits
LimitChoices == { <<-1, -1, -1>>, <<0, 1, 2>> }

\* a remote API and a store that may answer anything to any job
AnyStub(n) ==
    { [j \in 1..n |-> [fetch |-> FetchResults, save |-> SaveResults]] }

\* one scripted answer per kind of outcome
Script(kind) ==
    CASE kind = "ok"      -> [fetch |-> {[data |-> Slice(<<BarGood(1)>>), err |-> NoErr]},
                              save |-> {NoErr}]
      [] kind = "hard"    -> [fetch |-> {[data |-> NilSlice, err |-> SomeErr]},
                              save |-> {NoErr}]
      [] kind = "partial" -> [fetch |-> {[data |-> Slice(<<BarGood(1)>>), err |-> SomeErr]},
                              save |-> {NoErr}]
      [] kind = "saveerr" -> [fetch |-> {[data |-> Slice(<<BarGood(1)>>), err |-> NoErr]},
                              save |-> {SomeErr}]

ScriptKinds == {"ok", "hard", "partial", "saveerr"}

\* the kinds in the order a mixed run cycles through them
ScriptCycle == <<"hard", "ok", "saveerr", "partial">>

\* scripted runs: every job alike; exactly one job failing, the first or one
\* in the middle; or the kinds in turn
ScriptedStubs(n) ==
    { [j \in 1..n |-> Script(kind)] : kind \in ScriptKinds }
    \cup { [j \in 1..n |-> IF j = k THEN Script(kind) ELSE Script("ok")] :
             k \in {1, n \div 2}, kind \in {"hard", "saveerr"} }
    \cup { [j \in 1..n |-> Script(ScriptCycle[((j - 1) % Len(ScriptCycle)) + 1])] }

\* the bars a fetch can return for position t of a series: valid, all four
\* prices zero, or only the open zero
FilterBars(t) == {BarGood(t), BarZeroOHLC(t), BarZeroOpen(t)}

\* every series of n such bars, at increasing timestamps
RECURSIVE FilterSeries(_)
FilterSeries(n) ==
    IF n = 0 THEN {<<>>}
    ELSE { Append(s, b) : s \in FilterSeries(n - 1), b \in FilterBars(n) }

\* successful fetches of any such series, or of nothing
FilterResults ==
    {[data |-> NilSlice, err |-> NoErr]}
    \cup {[data |-> Slice(s), err |-> NoErr] :
             s \in UNION { FilterSeries(n) : n \in 0..MaxSeriesLen }}

\* the first job fetches any such series; of the others the second fails in
\* the fetch and the rest are fetched and saved
FilterStubs(n) ==
    { [j \in 1..n |-> IF j = 1 THEN [fetch |-> FilterResults, save |-> {NoErr}]
                      ELSE IF j = 2 THEN Script("hard") ELSE Script("ok")] }

\* ------------------------------------------------------------------------
\* fetchAllOHLCVData and the client it calls
\* ------------------------------------------------------------------------
\* time.Now().Unix()
Now == MaxTime + 1

\* the timestamps the stub upstream serves
StubTimes == 1..MaxTime

\* a bar of a stub page
PageBar(t, v) == OHLCVData(t, 1, 2, 1, 1, v, v)

RECURSIVE SortedSeq(_)
SortedSeq(T) ==
    IF T = {} THEN <<>>
    ELSE LET m == CHOOSE x \in T : \A y \in T : x <= y
         IN <<m>> \o SortedSeq(T \ {m})

\* the pages of the stub upstream: bars in ascending time order
StubPages ==
    UNION { { [i \in 1..Cardinality(T) |-> PageBar(SortedSeq(T)[i], f[SortedSeq(T)[i]])] :
                f \in [T -> {0, 1}] } :
            T \in {S \in SUBSET (1..MaxTime) : Cardinality(S) <= MaxPageLen} }

\* what the HTTP exchange of one call can come to: httpClient.Get fails, or
\* there is a response with a status code and a body that fails to decode
\* or decodes to a CryptoResponse
HttpOutcome(getFails, decodeFails, statusCode, response, message, data) ==
    [getFails |-> getFails, decodeFails |-> decodeFails, StatusCode |-> statusCode,
     Response |-> response, Message |-> message, Data |-> data]

\* the exchanges of the stub upstream of the backfill
HttpOutcomes ==
    { HttpOutcome(TRUE, FALSE, 0, "", "", NilSlice),
      HttpOutcome(FALSE, TRUE, 200, "", "", NilSlice),
      HttpOutcome(FALSE, FALSE, 200, "Error", "rate limit", NilSlice),
      HttpOutcome(FALSE, FALSE, 200, "Success", "", NilSlice) }
    \cup { HttpOutcome(FALSE, FALSE, 200, "Success", "", Slice(p)) : p \in StubPages }

\* the messages of the envelopes of the stub upstream
ApiMessages == {"", "rate limit"}

\* fmt.Errorf("error fetching data: %s", cr.Message)
ErrorFetchingData(message) ==
    CASE message = "" -> "error fetching data: "
      [] message = "rate limit" -> "error fetching data: rate limit"

\* mutant: a response whose status code is not 200 is an error
getOHLCVDataFromApi_CheckStatus(http) ==
    IF http.getFails THEN [data |-> NilSlice, err |-> "transport"]
    ELSE IF http.StatusCode # 200 THEN [data |-> NilSlice, err |-> "status"]
    ELSE IF http.decodeFails THEN [data |-> NilSlice, err |-> "decode"]
    ELSE IF http.Response = "Error"
         THEN [data |-> NilSlice, err |-> ErrorFetchingData(http.Message)]
    ELSE [data |-> http.Data, err |-> NoErr]

\* getOHLCVDataFromApi: (nil, err) on a transport failure, a decode failure or
\* an "Error" envelope; else the envelope's bars
getOHLCVDataFromApi(http) ==
    IF http.getFails THEN [data |-> NilSlice, err |-> "transport"]
    ELSE IF http.decodeFails THEN [data |-> NilSlice, err |-> "decode"]
    ELSE IF http.Response = "Error"
         THEN [data |-> NilSlice, err |-> ErrorFetchingData(http.Message)]
    ELSE [data |-> http.Data, err |-> NoErr]

\* the URL of fetchOHLCVData: no toTs
UrlOf(endpointName, fsym, tsym, limit) ==
    [endpoint |-> endpointName, fsym |-> fsym, tsym |-> tsym, limit |-> limit]

\* the URL of fetchOHLCVDataWithTs
UrlWithTs(endpointName, fsym, tsym, limit, ts) ==
    [endpoint |-> endpointName, fsym |-> fsym, tsym |-> tsym, limit |-> limit, toTs |-> ts]

\* fetchOHLCVData: the request carries limit as it was given; the answer is
\* that of getOHLCVDataFromApi
fetchOHLCVData(limit, http) == getOHLCVDataFromApi(http)

\* fetchOHLCVDataWithTs: the request carries limit and toTs; the answer is
\* that of getOHLCVDataFromApi
fetchOHLCVDataWithTs(limit, cursor, http) == getOHLCVDataFromApi(http)

\* the limits of the jobs that are not full-history jobs
JobLimits == {0, 1, apiMaxLimit, apiMaxLimit + 1}

\* the status codes of the responses of the stub upstream
StatusCodes == {200, 429, 500}

\* every exchange of one call: no response; a response of any status code
\* whose body does not decode; or one whose body decodes to any envelope
ApiExchanges ==
    { HttpOutcome(TRUE, FALSE, 0, "", "", NilSlice) }
    \cup { HttpOutcome(FALSE, TRUE, sc, "", "", NilSlice) : sc \in StatusCodes }
    \cup { HttpOutcome(FALSE, FALSE, sc, resp, msg, data) :
             sc \in StatusCodes, resp \in {"Success", "Error", ""}, msg \in ApiMessages,
             data \in {NilSlice, Slice(<<>>), Slice(<<PageBar(1, 1)>>)} }

NoUrl == UrlOf("", "", "", 0)
NoHttp == HttpOutcome(FALSE, FALSE, 0, "", "", NilSlice)

\* fetchOHLCVData builds its URL from the limit it was given
FetchBuildUrl ==
    /\ apipc = "call"
    /\ apiArgs.mode = "limit"
    /\ apiReq' = UrlOf(apiArgs.endpoint, apiArgs.symbol, VsCurrency, apiArgs.limit)
    /\ apipc' = "get"
    /\ UNCHANGED <<apiArgs, apiHttp, apiRet, pipeVars, bfVars, trimVars, dbVars>>

\* fetchOHLCVDataWithTs builds its URL from the limit and toTs it was given
FetchBuildUrlWithTs ==
    /\ apipc = "call"
    /\ apiArgs.mode = "ts"
    /\ apiReq' = UrlWithTs(apiArgs.endpoint, apiArgs.symbol, VsCurrency, apiArgs.limit,
                           apiArgs.toTs)
    /\ apipc' = "get"
    /\ UNCHANGED <<apiArgs, apiHttp, apiRet, pipeVars, bfVars, trimVars, dbVars>>

\* return c.getOHLCVDataFromApi(url)
FetchGet ==
    /\ apipc = "get"
    /\ \E http \in ApiExchanges :
          /\ apiHttp' = http
          /\ apiRet' = IF apiArgs.mode = "limit" THEN fetchOHLCVData(apiArgs.limit, http)
                       ELSE fetchOHLCVDataWithTs(apiArgs.limit, apiArgs.toTs, http)
    /\ apipc' = "done"
    /\ UNCHANGED <<apiArgs, apiReq, pipeVars, bfVars, trimVars, dbVars>>

\* if err != nil { return nil, err }
OnFetchError(r) ==
    /\ retData' = NilSlice
    /\ retErr' = r.err
    /\ bfpc' = "done"
    /\ UNCHANGED <<allData, toTs>>

\* mutant: an empty page is reported as a failure
OnEmptyPage_AsError(r) ==
    /\ retData' = NilSlice
    /\ retErr' = "no data"
    /\ bfpc' = "done"
    /\ UNCHANGED <<allData, toTs>>

\* if len(data) == 0 { break }; return allData, nil
OnEmptyPage(r) ==
    /\ retData' = allData
    /\ retErr' = NoErr
    /\ bfpc' = "done"
    /\ UNCHANGED <<allData, toTs>>

\* mutant: the bars of zero base volume are dropped one by one
OnPage_DropZeroVolume(r) ==
    /\ allData' = AppendSlice(allData,
                      Slice(SelectSeq(r.data.bars, LAMBDA d : d.VolumeFrom # 0)))
    /\ toTs' = r.data.bars[Len(r.data.bars)].Time
    /\ UNCHANGED <<bfpc, retData, retErr>>

\* allData = append(allData, data...); toTs = data[len(data)-1].Time
OnPage(r) ==
    /\ allData' = AppendSlice(allData, r.data)
    /\ toTs' = r.data.bars[Len(r.data.bars)].Time
    /\ UNCHANGED <<bfpc, retData, retErr>>

\* one iteration of the loop of fetchAllOHLCVData
FetchAllStep ==
    /\ bfpc = "loop"
    /\ \E http \in HttpOutcomes :
          LET r == fetchOHLCVDataWithTs(apiMaxLimit, toTs, http) IN
          /\ Len(r.data.bars) > 0 => Len(pages) < MaxCalls
          /\ pages' = Append(pages, r)
          /\ cursors' = Append(cursors, toTs)
          /\ IF r.err # NoErr THEN OnFetchError(r)
             ELSE IF Len(r.data.bars) = 0 THEN OnEmptyPage(r)
             ELSE OnPage(r)
    /\ UNCHANGED <<pipeVars, libVars>>

\* ------------------------------------------------------------------------
\* The end of a backfill: sortByTime and removeNotReadyData
\* ------------------------------------------------------------------------
histohourEndpoint == "histohour"
histodayEndpoint == "histoday"
histominuteEndpoint == "histominute"
Endpoints == {histohourEndpoint, histodayEndpoint, histominuteEndpoint}

\* d put into the ascending sequence seq, behind the bars whose Time is not
\* greater than its own
RECURSIVE InsertByTime(_, _)
InsertByTime(seq, d) ==
    IF seq = <<>> THEN <<d>>
    ELSE IF d.Time < seq[Len(seq)].Time
         THEN Append(InsertByTime(SubSeq(seq, 1, Len(seq) - 1), d), seq[Len(seq)])
         ELSE Append(seq, d)

\* sortByTime: the bars in ascending order of Time, bars of equal Time in the
\* order they had
RECURSIVE sortByTime(_)
sortByTime(bars) ==
    IF bars = <<>> THEN <<>>
    ELSE InsertByTime(sortByTime(SubSeq(bars, 1, Len(bars) - 1)), bars[Len(bars)])

\* mutant: every bar of zero VolumeFrom at the end of the series is taken out
removeNotReadyData_Trailing(data) ==
    LET live == { i \in 1..Len(data.bars) : data.bars[i].VolumeFrom # 0 }
        last == IF live = {} THEN 0 ELSE CHOOSE i \in live : \A k \in live : k <= i
    IN [isNil |-> data.isNil, bars |-> SubSeq(data.bars, 1, last)]

\* mutant: every bar of zero VolumeFrom is taken out
removeNotReadyData_AllZero(data) ==
    [isNil |-> data.isNil, bars |-> SelectSeq(data.bars, LAMBDA d : d.VolumeFrom # 0)]

\* removeNotReadyData: the series without its last bar if that bar's
\* VolumeFrom is zero, else the series
removeNotReadyData(data) ==
    IF Len(data.bars) > 0 /\ data.bars[Len(data.bars)].VolumeFrom = 0
    THEN [isNil |-> data.isNil, bars |-> SubSeq(data.bars, 1, Len(data.bars) - 1)]
    ELSE data

\* after the loop: sortByTime(allData)
FetchAllSort ==
    /\ trimpc = "sort"
    /\ merged' = [isNil |-> merged.isNil, bars |-> sortByTime(merged.bars)]
    /\ trimpc' = "trim"
    /\ UNCHANGED <<endpoint, trimmed, pipeVars, bfVars, dbVars, apiVars>>

\* the minute backfill returns removeNotReadyData(allData), the hourly and
\* the daily backfill return allData
FetchAllTrim ==
    /\ trimpc = "trim"
    /\ trimmed' = IF endpoint = histominuteEndpoint THEN removeNotReadyData(merged)
                  ELSE merged
    /\ trimpc' = "done"
    /\ UNCHANGED <<endpoint, merged, pipeVars, bfVars, dbVars, apiVars>>

\* the series a backfill can have accumulated: bars of any Time in any order
RECURSIVE SeriesOfLen(_)
SeriesOfLen(n) ==
    IF n = 0 THEN {<<>>}
    ELSE { Append(s, PageBar(t, v)) : s \in SeriesOfLen(n - 1), t \in StubTimes, v \in {0, 5} }

AccumulatedSeries == UNION { SeriesOfLen(n) : n \in 0..MaxSeriesLen }

\* ------------------------------------------------------------------------
\* The store: pkg/models and pkg/db
\* ------------------------------------------------------------------------
\* TableName() of CryptoOHLCVMinute, CryptoOHLCVHourly, CryptoOHLCVDaily
MinuteTable == "crypto_ohlcv_minute_go"
HourlyTable == "crypto_ohlcv_hourly_go"
DailyTable == "crypto_ohlcv_daily_go"
TableNames == {MinuteTable, HourlyTable, DailyTable}

\* time.Unix(sec, 0).UTC()
UnixUTC(sec) == [sec |-> sec, loc |-> "UTC"]

\* mapOHLCVData: a models.CryptoOHLCV with the zero ID
mapOHLCVData(src, symbol, vsCurrency) ==
    [ID |-> 0, TradingSymbol |-> symbol, VsCurrency |-> vsCurrency,
     Timestamp |-> UnixUTC(src.Time),
     Open |-> src.Open, High |-> src.High, Low |-> src.Low, Close |-> src.Close,
     VolumeFrom |-> src.VolumeFrom, VolumeTo |-> src.VolumeTo]

\* the models built from job.data, in the order of the bars
MapAll(job) == [i \in 1..Len(job.data.bars) |->
                   mapOHLCVData(job.data.bars[i], job.symbol, job.vsCurrency)]

\* the unique index tpair_ts: trading_symbol, vs_currency, timestamp
SameKey(r, d) ==
    /\ r.TradingSymbol = d.TradingSymbol
    /\ r.VsCurrency = d.VsCurrency
    /\ r.Timestamp = d.Timestamp

\* a database: the tables and their ID sequences
Database(t, n) == [tables |-> t, nextID |-> n]

\* mutant: ON CONFLICT DO NOTHING, a conflicting row keeps what it has
CreateOnConflict_DoNothing(db, table, d) ==
    LET rows == db.tables[table]
        id == db.nextID[table]
        hit == {i \in 1..Len(rows) : SameKey(rows[i], d)}
    IN IF hit = {}
       THEN Database([db.tables EXCEPT ![table] = Append(rows, [d EXCEPT !.ID = id])],
                     [db.nextID EXCEPT ![table] = id + 1])
       ELSE Database(db.tables, [db.nextID EXCEPT ![table] = id + 1])

\* mutant: a conflicting row is replaced by the new model, ID included
CreateOnConflict_Replace(db, table, d) ==
    LET rows == db.tables[table]
        id == db.nextID[table]
        hit == {i \in 1..Len(rows) : SameKey(rows[i], d)}
    IN IF hit = {}
       THEN Database([db.tables EXCEPT ![table] = Append(rows, [d EXCEPT !.ID = id])],
                     [db.nextID EXCEPT ![table] = id + 1])
       ELSE LET i == CHOOSE i \in hit : TRUE
            IN Database([db.tables EXCEPT ![table][i] = [d EXCEPT !.ID = id]],
                        [db.nextID EXCEPT ![table] = id + 1])

\* mutant: no conflict clause, every model is inserted as a new row
CreateOnConflict_Insert(db, table, d) ==
    LET rows == db.tables[table]
        id == db.nextID[table]
    IN Database([db.tables EXCEPT ![table] = Append(rows, [d EXCEPT !.ID = id])],
                [db.nextID EXCEPT ![table] = id + 1])

\* clauses.Create(&d): INSERT ... ON CONFLICT (trading_symbol, vs_currency,
\* timestamp) DO UPDATE SET open, high, low, close, volume_from, volume_to;
\* the ID of a new row comes from the table's sequence, which advances also
\* when the row conflicts
CreateOnConflict(db, table, d) ==
    LET rows == db.tables[table]
        id == db.nextID[table]
        hit == {i \in 1..Len(rows) : SameKey(rows[i], d)}
    IN IF hit = {}
       THEN Database([db.tables EXCEPT ![table] = Append(rows, [d EXCEPT !.ID = id])],
                     [db.nextID EXCEPT ![table] = id + 1])
       ELSE LET i == CHOOSE i \in hit : TRUE
            IN Database([db.tables EXCEPT ![table][i] =
                            [@ EXCEPT !.Open = d.Open, !.High = d.High, !.Low = d.Low,
                                      !.Close = d.Close, !.VolumeFrom = d.VolumeFrom,
                                      !.VolumeTo = d.VolumeTo]],
                        [db.nextID EXCEPT ![table] = id + 1])

\* mutant: the batch is one transaction, rolled back when a model is rejected
RECURSIVE UpsertFrom_Atomic(_, _, _, _, _)
UpsertFrom_Atomic(db, table, data, i, rejectAt) ==
    IF rejectAt \in i..Len(data) THEN [db |-> db, err |-> SomeErr]
    ELSE IF i > Len(data) THEN [db |-> db, err |-> NoErr]
    ELSE UpsertFrom_Atomic(CreateOnConflict(db, table, data[i]), table, data, i + 1, rejectAt)

\* for _, d := range data { if err := clauses.Create(&d).Error; err != nil
\* { return err } }; return nil, from the i-th model on; the store rejects
\* the model at index rejectAt, if there is one
RECURSIVE UpsertFrom(_, _, _, _, _)
UpsertFrom(db, table, data, i, rejectAt) ==
    IF i > Len(data) THEN [db |-> db, err |-> NoErr]
    ELSE IF i = rejectAt THEN [db |-> db, err |-> SomeErr]
    ELSE UpsertFrom(CreateOnConflict(db, table, data[i]), table, data, i + 1, rejectAt)

UpsertMinuteOHLCData(db, data, rejectAt) == UpsertFrom(db, MinuteTable, data, 1, rejectAt)
UpsertHourlyOHLCData(db, data, rejectAt) == UpsertFrom(db, HourlyTable, data, 1, rejectAt)
UpsertDailyOHLCData(db, data, rejectAt) == UpsertFrom(db, DailyTable, data, 1, rejectAt)

\* mutant: every job is saved as an hourly one
UpsertJob_AllHourly(db, job, rejectAt) ==
    UpsertHourlyOHLCData(db, MapAll(job), rejectAt)

\* the switch of saveWorker on job.timeframe
UpsertJob(db, job, rejectAt) ==
    CASE job.timeframe = "hourly" -> UpsertHourlyOHLCData(db, MapAll(job), rejectAt)
      [] job.timeframe = "daily"  -> UpsertDailyOHLCData(db, MapAll(job), rejectAt)
      [] job.timeframe = "minute" -> UpsertMinuteOHLCData(db, MapAll(job), rejectAt)
      [] OTHER -> [db |-> db, err |-> NoErr]

\* the table saveWorker's switch upserts a job of this timeframe into
TableOf(timeframe) ==
    CASE timeframe = "hourly" -> HourlyTable
      [] timeframe = "daily"  -> DailyTable
      [] timeframe = "minute" -> MinuteTable

\* a bar of a save job, its six numbers told apart
StoreBar(t, x) == OHLCVData(t, x, x + 1, x + 2, x + 3, x + 4, x + 5)

\* the timestamps of the bars of the save jobs
StoreTimes == {1, 2}

\* every sequence of n timestamps, in any order, repeated ones too
RECURSIVE TimePatterns(_)
TimePatterns(n) ==
    IF n = 0 THEN {<<>>}
    ELSE { Append(s, t) : s \in TimePatterns(n - 1), t \in StoreTimes }

\* a series of bars at these timestamps whose numbers start at 10 * base:
\* every bar of the series has numbers of its own
StoreSeries(times, base) == [i \in 1..Len(times) |-> StoreBar(times[i], 10 * base + i)]

\* the symbol of the save jobs, and a symbol saved by an earlier run
StoreSymbol == SymbolNames[1]
OtherSymbol == SymbolNames[2]

\* the row an earlier run left in every table for the other symbol
OtherRow == [mapOHLCVData(StoreBar(1, 1), OtherSymbol, VsCurrency) EXCEPT !.ID = 1]

\* the body of saveWorker for the save job of dbJob's symbol and timeframe
\* with any series of up to MaxBatchLen bars, their numbers those of the first
\* run or new ones, the store rejecting the model at index rejectAt or none
SaveRun ==
    /\ dbRuns < MaxRuns
    /\ \E n \in 0..MaxBatchLen : \E times \in TimePatterns(n) :
       \E base \in {1, dbRuns + 1} : \E rejectAt \in 0..n :
          LET job == [dbJob EXCEPT !.data = Slice(StoreSeries(times, base))]
              r == UpsertJob(Database(tables, nextID), job, rejectAt)
          IN /\ tables' = r.db.tables
             /\ nextID' = r.db.nextID
             /\ dbJob' = job
             /\ dbErr' = r.err
             /\ dbRuns' = dbRuns + 1
             /\ dbRejectAt' = rejectAt
    /\ UNCHANGED <<qpc, qArgs, qRet, pipeVars, bfVars, trimVars, apiVars>>

\* the limits of the queries
QueryLimits == {-1, 0, 1, 2}

\* the arguments of a Get*OHLCData call, with the table of the method
Query(table, limit, tradingSymbol, vsCurrency) ==
    [table |-> table, limit |-> limit, tradingSymbol |-> tradingSymbol,
     vsCurrency |-> vsCurrency]

NoQuery == Query("", 0, "", "")

\* Where("trading_symbol = ? AND vs_currency = ?", tradingSymbol, vsCurrency)
Where(rows, tradingSymbol, vsCurrency) ==
    SelectSeq(rows, LAMBDA r : r.TradingSymbol = tradingSymbol /\ r.VsCurrency = vsCurrency)

\* r put into the sequence seq, which is ascending by timestamp
RECURSIVE InsertByTimestamp(_, _)
InsertByTimestamp(seq, r) ==
    IF seq = <<>> THEN <<r>>
    ELSE IF r.Timestamp.sec < seq[Len(seq)].Timestamp.sec
         THEN Append(InsertByTimestamp(SubSeq(seq, 1, Len(seq) - 1), r), seq[Len(seq)])
         ELSE Append(seq, r)

\* Order("timestamp asc")
RECURSIVE OrderByTimestamp(_)
OrderByTimestamp(rows) ==
    IF rows = <<>> THEN <<>>
    ELSE InsertByTimestamp(OrderByTimestamp(SubSeq(rows, 1, Len(rows) - 1)), rows[Len(rows)])

\* Limit(limit): a LIMIT clause is written for a limit above zero and none
\* for a limit below zero; for limit zero the release of gorm decides
\* (zeroIsNoLimit: none is written)
Limit(rows, limit, zeroIsNoLimit) ==
    IF limit > 0 \/ (limit = 0 /\ ~zeroIsNoLimit)
    THEN SubSeq(rows, 1, IF limit < Len(rows) THEN limit ELSE Len(rows))
    ELSE rows

\* mutant: the query has no Order clause, the rows come as they were inserted
Find_NoOrder(rows, q, zeroIsNoLimit, fails) ==
    IF fails THEN [data |-> <<>>, err |-> SomeErr]
    ELSE [data |-> Limit(Where(rows, q.tradingSymbol, q.vsCurrency), q.limit, zeroIsNoLimit),
          err |-> NoErr]

\* db.Where(...).Order("timestamp asc").Limit(limit).Find(&data); on an
\* error of the store: nil and the error
Find(rows, q, zeroIsNoLimit, fails) ==
    IF fails THEN [data |-> <<>>, err |-> SomeErr]
    ELSE [data |-> Limit(OrderByTimestamp(Where(rows, q.tradingSymbol, q.vsCurrency)),
                         q.limit, zeroIsNoLimit),
          err |-> NoErr]

GetMinuteOHLCData(db, limit, tradingSymbol, vsCurrency, zeroIsNoLimit, fails) ==
    Find(db.tables[MinuteTable], Query(MinuteTable, limit, tradingSymbol, vsCurrency),
         zeroIsNoLimit, fails)
GetHourlyOHLCData(db, limit, tradingSymbol, vsCurrency, zeroIsNoLimit, fails) ==
    Find(db.tables[HourlyTable], Query(HourlyTable, limit, tradingSymbol, vsCurrency),
         zeroIsNoLimit, fails)
GetDailyOHLCData(db, limit, tradingSymbol, vsCurrency, zeroIsNoLimit, fails) ==
    Find(db.tables[DailyTable], Query(DailyTable, limit, tradingSymbol, vsCurrency),
         zeroIsNoLimit, fails)

\* one call of one of the three Get*OHLCData methods
GetRun ==
    /\ qpc = "call"
    /\ \E table \in TableNames : \E limit \in QueryLimits :
       \E symbol \in {StoreSymbol, OtherSymbol} :
       \E zeroIsNoLimit \in BOOLEAN : \E fails \in BOOLEAN :
          LET db == Database(tables, nextID) IN
          /\ qArgs' = Query(table, limit, symbol, VsCurrency)
          /\ qRet' = CASE table = MinuteTable ->
                             GetMinuteOHLCData(db, limit, symbol, VsCurrency, zeroIsNoLimit, fails)
                        [] table = HourlyTable ->
                             GetHourlyOHLCData(db, limit, symbol, VsCurrency, zeroIsNoLimit, fails)
                        [] table = DailyTable ->
                             GetDailyOHLCData(db, limit, symbol, VsCurrency, zeroIsNoLimit, fails)
    /\ qpc' = "done"
    /\ UNCHANGED <<tables, nextID, dbJob, dbErr, dbRuns, dbRejectAt,
                   pipeVars, bfVars, trimVars, apiVars>>

\* ------------------------------------------------------------------------
\* Specifications
\* ------------------------------------------------------------------------
InitBackfillIdle ==
    /\ bfpc = "idle"
    /\ allData = NilSlice
    /\ toTs = 0
    /\ retData = NilSlice
    /\ retErr = NoErr
    /\ pages = <<>>
    /\ cursors = <<>>

InitTrimIdle ==
    /\ trimpc = "idle"
    /\ endpoint = ""
    /\ merged = NilSlice
    /\ trimmed = NilSlice

InitQueryIdle ==
    /\ qpc = "idle"
    /\ qArgs = NoQuery
    /\ qRet = [data |-> <<>>, err |-> NoErr]

InitStoreEmpty ==
    /\ tables = [t \in TableNames |-> <<>>]
    /\ nextID = [t \in TableNames |-> 1]
    /\ dbJob = NoSaveJob
    /\ dbErr = NoErr
    /\ dbRuns = 0
    /\ dbRejectAt = 0
    /\ InitQueryIdle

InitApiIdle ==
    /\ apipc = "idle"
    /\ apiArgs = [mode |-> "", endpoint |-> "", symbol |-> "", limit |-> 0, toTs |-> 0]
    /\ apiReq = NoUrl
    /\ apiHttp = NoHttp
    /\ apiRet = NoFetch

InitLibIdle == InitTrimIdle /\ InitStoreEmpty /\ InitApiIdle

InitPipeline(n, stubs, limitChoices) ==
    /\ tradingSymbols = SubSeq(SymbolNames, 1, n)
    /\ limits \in limitChoices
    /\ stub \in stubs
    /\ mainpc = IF n = 0 THEN "wait" ELSE "add"
    /\ next = 1
    /\ counter = 0
    /\ downloadChannel = <<>>
    /\ saveChannel = <<>>
    /\ dlpc = "recv"
    /\ dlJob = NoJob
    /\ dlData = NilSlice
    /\ dlErr = NoErr
    /\ dlFetched = NoFetch
    /\ svpc = "recv"
    /\ svJob = NoSaveJob
    /\ svErr = NoErr
    /\ hist = [j \in 1..(n * Len(Timeframes)) |-> NoHist]
    /\ closed = <<>>

\* the pipeline, every answer of the collaborators possible
Init ==
    /\ InitPipeline(NumSymbols, AnyStub(NumSymbols * Len(Timeframes)), LimitChoices)
    /\ InitBackfillIdle
    /\ InitLibIdle

\* the pipeline with no symbol, one symbol, or more jobs than a channel holds,
\* the collaborators scripted
InitLoad ==
    /\ \E n \in {0, 1, LoadSymbols} :
          InitPipeline(n, ScriptedStubs(n * Len(Timeframes)), {<<-1, -1, -1>>})
    /\ InitBackfillIdle
    /\ InitLibIdle

\* a full-history run of the pipeline, every answer of the collaborators possible
InitFullHistory ==
    /\ InitPipeline(NumSymbols, AnyStub(NumSymbols * Len(Timeframes)), {<<-1, -1, -1>>})
    /\ InitBackfillIdle
    /\ InitLibIdle

\* the pipeline with a first job whose fetch returns any series of valid and
\* zero-priced bars
InitFilter ==
    /\ InitPipeline(NumSymbols, FilterStubs(NumSymbols * Len(Timeframes)), LimitChoices)
    /\ InitBackfillIdle
    /\ InitLibIdle

\* one call of fetchAllOHLCVData
InitBackfill ==
    /\ InitPipeline(0, AnyStub(0), {<<-1, -1, -1>>})
    /\ bfpc = "loop"
    /\ allData = NilSlice
    /\ toTs = Now
    /\ retData = NilSlice
    /\ retErr = NoErr
    /\ pages = <<>>
    /\ cursors = <<>>
    /\ InitLibIdle

\* the end of one backfill, for any endpoint and any accumulated series
InitTrim ==
    /\ InitPipeline(0, AnyStub(0), {<<-1, -1, -1>>})
    /\ InitBackfillIdle
    /\ trimpc = "sort"
    /\ endpoint \in Endpoints
    /\ merged \in {NilSlice} \cup { Slice(b) : b \in AccumulatedSeries }
    /\ trimmed = NilSlice
    /\ InitStoreEmpty
    /\ InitApiIdle

Next ==
    \/ MainAdd \/ MainSend \/ MainWait \/ MainClose
    \/ DlRecv \/ DlFetch \/ DlDrop \/ DlKeep \/ DlAdd \/ DlSend \/ DlDone \/ DlExit
    \/ SvRecv \/ SvUpsert \/ SvDone \/ SvExit

NextBackfill == FetchAllStep

Spec == Init /\ [][Next]_vars

\* the Go scheduler runs every goroutine that can take a step
Fairness ==
    /\ WF_vars(MainAdd) /\ WF_vars(MainSend) /\ WF_vars(MainWait)
    /\ WF_vars(DlRecv) /\ WF_vars(DlFetch) /\ WF_vars(DlDrop) /\ WF_vars(DlKeep)
    /\ WF_vars(DlAdd) /\ WF_vars(DlSend) /\ WF_vars(DlDone)
    /\ WF_vars(SvRecv) /\ WF_vars(SvUpsert) /\ WF_vars(SvDone)

LoadSpec == InitLoad /\ [][Next]_vars /\ Fairness

FairSpec == InitFullHistory /\ [][Next]_vars /\ Fairness

FilterSpec == InitFilter /\ [][Next]_vars

BackfillSpec == InitBackfill /\ [][NextBackfill]_vars

\* runs of one save job against a store in which an earlier run has left a
\* row of another symbol in every table
InitStore ==
    /\ InitPipeline(0, AnyStub(0), {<<-1, -1, -1>>})
    /\ InitBackfillIdle
    /\ InitTrimIdle
    /\ tables = [t \in TableNames |-> <<OtherRow>>]
    /\ nextID = [t \in TableNames |-> 2]
    /\ dbJob \in { [symbol |-> StoreSymbol, vsCurrency |-> VsCurrency,
                     timeframe |-> tf, data |-> NilSlice] :
                       tf \in {"hourly", "daily", "minute"} }
    /\ dbErr = NoErr
    /\ dbRuns = 0
    /\ dbRejectAt = 0
    /\ InitQueryIdle
    /\ InitApiIdle

NextStore == SaveRun

\* the store after one save job of StoreSymbol, of any timeframe and with
\* bars at any timestamps in any order, was upserted into tables that held a
\* row of another symbol each
StoresAfterSave ==
    { UpsertJob(Database([t \in TableNames |-> <<OtherRow>>], [t \in TableNames |-> 2]),
                [symbol |-> StoreSymbol, vsCurrency |-> VsCurrency, timeframe |-> tf,
                 data |-> Slice(StoreSeries(times, 1))], 0).db :
        tf \in {"hourly", "daily", "minute"},
        times \in UNION { TimePatterns(n) : n \in 0..MaxBatchLen } }

\* one query of such a store
InitQuery ==
    /\ InitPipeline(0, AnyStub(0), {<<-1, -1, -1>>})
    /\ InitBackfillIdle
    /\ InitTrimIdle
    /\ \E db \in StoresAfterSave : tables = db.tables /\ nextID = db.nextID
    /\ dbJob = NoSaveJob
    /\ dbErr = NoErr
    /\ dbRuns = 0
    /\ dbRejectAt = 0
    /\ qpc = "call"
    /\ qArgs = NoQuery
    /\ qRet = [data |-> <<>>, err |-> NoErr]
    /\ InitApiIdle

NextQuery == GetRun

QuerySpec == InitQuery /\ [][NextQuery]_vars

StoreSpec == InitStore /\ [][NextStore]_vars

\* one page fetch: a Fetch*OHLCVData call of downloadWorker with the job's
\* limit, or a fetchOHLCVDataWithTs call of the backfill with apiMaxLimit
InitApi ==
    /\ InitPipeline(0, AnyStub(0), {<<-1, -1, -1>>})
    /\ InitBackfillIdle
    /\ InitTrimIdle
    /\ InitStoreEmpty
    /\ apipc = "call"
    /\ apiArgs \in
          { [mode |-> "limit", endpoint |-> e, symbol |-> SymbolNames[1],
             limit |-> l, toTs |-> 0] : e \in Endpoints, l \in JobLimits }
          \cup { [mode |-> "ts", endpoint |-> e, symbol |-> SymbolNames[1],
                  limit |-> apiMaxLimit, toTs |-> Now] : e \in Endpoints }
    /\ apiReq = NoUrl
    /\ apiHttp = NoHttp
    /\ apiRet = NoFetch

NextApi == FetchBuildUrl \/ FetchBuildUrlWithTs \/ FetchGet

ApiSpec == InitApi /\ [][NextApi]_vars

NextTrim == FetchAllSort \/ FetchAllTrim

TrimSpec == InitTrim /\ [][NextTrim]_vars

\* ------------------------------------------------------------------------
\* Properties of the pipeline
\* ------------------------------------------------------------------------
\* the number of jobs a worker at position pc is processing: none while it
\* waits to receive and after it has left its loop
Busy(pc) == IF pc \in {"recv", "exit"} THEN 0 ELSE 1

\* job j is in neither queue and in neither worker
LeftDownload(j) == hist[j].taken = 1 /\ (Busy(dlpc) = 0 \/ JobIndex(dlJob) # j)
LeftSave(j) == hist[j].upserts = 1 /\ (Busy(svpc) = 0 \/ JobIndex(svJob) # j)

\* C1: once wg.Wait() has returned, no job is queued for or being processed
\* by the download stage, and no forwarded job is queued for or being
\* processed by the save stage; every submitted job has gone through the
\* download stage, whether it was dropped there or forwarded.
C1_CompletionAccounting ==
    mainpc = "done" =>
        /\ downloadChannel = <<>> /\ Busy(dlpc) = 0
        /\ saveChannel = <<>> /\ Busy(svpc) = 0
        /\ \A j \in 1..NumJobs : LeftDownload(j) /\ (hist[j].fwd = 1 => LeftSave(j))

\* C1 witness: wg.Wait() has returned in a run where some, not all, jobs
\* were dropped for hard failure.
C1_Witness ==
    /\ mainpc = "done"
    /\ \E j \in 1..NumJobs : hist[j].fetch = "hard" /\ hist[j].fwd = 0
    /\ \E j \in 1..NumJobs : hist[j].fetch = "data" /\ hist[j].upserts = 1

\* C2: under fair scheduling of main, downloadWorker and saveWorker, with
\* every fetch and upsert returning, wg.Wait() eventually returns, also with
\* more jobs than a channel holds and with jobs dropped; so no run gets stuck.
C2_RunTerminates == <>(mainpc = "done")

\* C2 witness: wg.Wait() has returned in a run of more jobs than a channel
\* holds, all of them dropped by the download stage.
C2_Witness ==
    /\ mainpc = "done"
    /\ NumJobs > DownloadChanCap
    /\ \A j \in 1..NumJobs : hist[j].fetch = "hard"

\* C3: a job whose fetch returned no data and an error is never sent to the
\* save queue; it has been counted up once (by main) and, once the download
\* stage is through with it, counted down once: net zero.
C3_HardFailureDrop ==
    \A j \in 1..NumJobs :
        hist[j].fetch = "hard" =>
            /\ hist[j].fwd = 0
            /\ hist[j].upserts = 0
            /\ hist[j].adds = 1
            /\ hist[j].dones = IF LeftDownload(j) THEN 1 ELSE 0
            /\ \A i \in 1..Len(saveChannel) : JobIndex(saveChannel[i]) # j

\* C3 witness: a hard-failed job is through the download stage, after wg.Done.
C3_Witness ==
    \E j \in 1..NumJobs :
        hist[j].fetch = "hard" /\ LeftDownload(j) /\ hist[j].dones = 1

\* C4: under fair scheduling every submitted job is eventually taken by the
\* download stage exactly once and, if its fetch yielded data, upserted by
\* the save stage, whichever other jobs failed in the fetch or in the upsert.
C4_PerJobIsolation ==
    <>(\A j \in 1..NumJobs :
          /\ hist[j].taken = 1
          /\ hist[j].fetch # "none"
          /\ hist[j].fetch = "data" => hist[j].save # "none")

\* C4 witness: a job was saved after an earlier job hard-failed in the fetch
\* and another earlier job failed in the upsert.
C4_Witness ==
    \E j \in 1..NumJobs :
        /\ hist[j].save = "ok"
        /\ \E i \in 1..(j - 1) : hist[i].fetch = "hard" /\ LeftDownload(i)
        /\ \E i \in 1..(j - 1) : hist[i].save = "err"

\* C5 as stated: a forwarded job is counted up exactly once and down exactly
\* twice.
C5_AsStated ==
    \A j \in 1..NumJobs :
        hist[j].fwd = 1 =>
            /\ hist[j].adds = 1
            /\ hist[j].dones <= 2
            /\ LeftDownload(j) /\ LeftSave(j) => hist[j].dones = 2

\* C5 amended: a forwarded job is counted up exactly twice (by main when
\* it is submitted, by the download stage before it is forwarded) and, once
\* both stages are through with it, counted down exactly twice.
C5_CounterProtocol ==
    \A j \in 1..NumJobs :
        hist[j].fwd = 1 =>
            /\ hist[j].adds = 2
            /\ hist[j].dones <= 2
            /\ LeftDownload(j) /\ LeftSave(j) => hist[j].dones = 2

\* C5 witness: a forwarded job is through both stages.
C5_Witness ==
    \E j \in 1..NumJobs :
        hist[j].fwd = 1 /\ LeftDownload(j) /\ LeftSave(j) /\ hist[j].dones = 2

\* what downloadWorker forwards for a fetch result r of job
Forwarded(job, r) ==
    [symbol |-> job.symbol, vsCurrency |-> job.vsCurrency, timeframe |-> job.timeframe,
     data |-> IF job.limit < 0 THEN removeInvalidOHLCVData(r.data) ELSE r.data]

IsPartial(r) == ~r.data.isNil /\ r.err # NoErr

\* C7: while downloadWorker holds a job whose fetch returned data together
\* with an error, it does not drop the job; the one send it makes for the job
\* puts on the save queue a save job carrying that data, filtered of zero-OHLC
\* bars when limit < 0; and it finishes the job only after that one send.
C7_PartialForwarded ==
    [][IsPartial(dlFetched) =>
          /\ dlpc = "check" /\ dlpc' # dlpc => dlpc' = "add"
          /\ dlpc = "send" /\ dlpc' # dlpc =>
                 saveChannel' = Append(saveChannel, Forwarded(dlJob, dlFetched))
          /\ Len(saveChannel') > Len(saveChannel) => dlpc = "send" /\ dlpc' = "defer"
          /\ hist[JobIndex(dlJob)].fwd = IF dlpc = "defer" THEN 1 ELSE 0
      ]_vars

\* C7 witness: a partially fetched full-history job has been forwarded, with
\* the zero-OHLC bars filtered out of what the fetch returned.
C7_Witness ==
    /\ IsPartial(dlFetched)
    /\ dlpc = "defer"
    /\ dlJob.limit < 0
    /\ hist[JobIndex(dlJob)].fwd = 1
    /\ dlData # dlFetched.data

\* how often job j is in a channel
TimesIn(channel, j) == Cardinality({ i \in 1..Len(channel) : JobIndex(channel[i]) = j })

\* C17: a job is taken from the download queue at most once (exactly once
\* by the time wg.Wait() has returned), while it waits there once; the client
\* is called at most once for it, it is sent to the save queue at most once
\* and upserted at most once; after a fetch that failed without data there
\* is no send and no upsert for it, and after any failed fetch or failed
\* upsert the call is not repeated.
C17_NoRetries ==
    \A j \in 1..NumJobs :
        /\ hist[j].taken + TimesIn(downloadChannel, j) = (IF j < next THEN 1 ELSE 0)
        /\ mainpc = "done" => hist[j].taken = 1
        /\ hist[j].fetches <= hist[j].taken
        /\ hist[j].fwd <= hist[j].fetches
        /\ hist[j].upserts <= hist[j].fwd
        /\ TimesIn(saveChannel, j) <= hist[j].fwd
        /\ hist[j].fetch = "hard" => hist[j].fetches = 1 /\ hist[j].fwd = 0
        /\ hist[j].save = "err" => hist[j].upserts = 1

\* C17 witness: wg.Wait() has returned in a run in which the fetch of one
\* job failed without data and the upsert of another failed.
C17_Witness ==
    /\ mainpc = "done"
    /\ \E j \in 1..NumJobs : hist[j].fetch = "hard" /\ hist[j].fetches = 1
    /\ \E j \in 1..NumJobs : hist[j].save = "err" /\ hist[j].upserts = 1

\* the numbers of the jobs in the channel, from its head to its end
IndicesIn(channel) == [i \in 1..Len(channel) |-> JobIndex(channel[i])]

\* the numbers ix are in the order of submission, none twice
InSubmissionOrder(ix) == \A i \in 1..(Len(ix) - 1) : ix[i] < ix[i + 1]

\* the set of the numbers ix
Members(ix) == { ix[i] : i \in 1..Len(ix) }

\* C20: each channel holds at most 10 jobs at any time, in the order in
\* which they were sent and none twice; every submitted job is in the
\* download queue or was taken from it once, and the job main is about to
\* send is not in it; every forwarded job is in the save queue, with
\* saveWorker, or upserted. So a send to a full channel cannot complete: it
\* would make the channel longer than 10 or push a job out of it.
C20_BoundedQueues ==
    LET dq == IndicesIn(downloadChannel)
        sq == IndicesIn(saveChannel)
        inDq == Members(dq)
        inSq == Members(sq)
        inUpsert == IF svpc = "upsert" THEN {JobIndex(svJob)} ELSE {}
    IN /\ Len(downloadChannel) <= DownloadChanCap
       /\ Len(saveChannel) <= SaveChanCap
       /\ InSubmissionOrder(dq)
       /\ InSubmissionOrder(sq)
       /\ \A j \in 1..NumJobs :
             /\ hist[j].taken = (IF j < next /\ j \notin inDq THEN 1 ELSE 0)
             /\ j \in inDq => j < next
             /\ hist[j].fwd = (IF j \in inSq \/ j \in inUpsert THEN 1 ELSE hist[j].upserts)
             /\ j \in inSq \/ j \in inUpsert => hist[j].upserts = 0
             /\ j \in inSq => j \notin inUpsert

\* C20 witness: main waits to send the 11th job while the download queue
\* holds the first 10.
C20_Witness ==
    /\ mainpc = "send"
    /\ next = DownloadChanCap + 1
    /\ Len(downloadChannel) = DownloadChanCap

\* C21: a channel is closed only after wg.Wait() has returned with the
\* counter at zero and every job submitted; a closed channel is empty and
\* nothing is left that could still be sent on it (main has submitted every
\* job, downloadWorker holds none), every job having been taken and every
\* forwarded job upserted; no channel is closed twice.
C21_ShutdownOrdering ==
    /\ closed # <<>> =>
          /\ mainpc = "done"
          /\ counter = 0
          /\ next = NumJobs + 1
          /\ \A j \in 1..NumJobs : hist[j].taken = 1 /\ hist[j].upserts = hist[j].fwd
    /\ IsClosed("downloadChannel") => downloadChannel = <<>> /\ dlpc \in {"recv", "exit"}
    /\ IsClosed("saveChannel") =>
          saveChannel = <<>> /\ dlpc \in {"recv", "exit"} /\ svpc \in {"recv", "exit"}
    /\ \A i \in 1..Len(closed) : \A k \in 1..Len(closed) : closed[i] = closed[k] => i = k
    /\ dlpc = "exit" => IsClosed("downloadChannel")
    /\ svpc = "exit" => IsClosed("saveChannel")

\* C21 witness: both channels are closed and both workers have left their
\* loops, after a run in which a job was forwarded and saved.
C21_Witness ==
    /\ closed = DeferredCloses
    /\ dlpc = "exit" /\ svpc = "exit"
    /\ \E j \in 1..NumJobs : hist[j].upserts = 1

\* the full-history method and the page method of the client per timeframe
BackfillOf(timeframe) ==
    CASE timeframe = "hourly" -> "FetchAllHourlyOHLCVData"
      [] timeframe = "daily"  -> "FetchAllDailyOHLCVData"
      [] timeframe = "minute" -> "FetchAllMinuteOHLCVData"
PageFetchOf(timeframe) ==
    CASE timeframe = "hourly" -> "FetchHourlyOHLCVData"
      [] timeframe = "daily"  -> "FetchDailyOHLCVData"
      [] timeframe = "minute" -> "FetchMinuteOHLCVData"

\* C22: the one call downloadWorker makes for a job is, when the job's
\* limit is below zero, the full-history method of the job's timeframe (which
\* takes no limit), and when the limit is zero or above, the page method of the
\* job's timeframe with the job's limit; in both cases for the job's symbol
\* and quote currency. Nothing but the sign of the limit selects the mode.
C22_ModeDispatch ==
    \A j \in 1..NumJobs :
        hist[j].fetches > 0 =>
            LET job == JobAt(j)
                call == hist[j].call
            IN /\ hist[j].fetches = 1
               /\ call.symbol = job.symbol /\ call.vsCurrency = job.vsCurrency
               /\ job.limit < 0 =>
                     call.method = BackfillOf(job.timeframe) /\ ~call.hasLimit
               /\ job.limit >= 0 =>
                     /\ call.method = PageFetchOf(job.timeframe)
                     /\ call.hasLimit /\ call.limit = job.limit

\* C22 witness: the hourly job of a run with limit 0 was served by the page
\* method for hourly bars, called with limit 0.
C22_Witness ==
    \E j \in 1..NumJobs :
        /\ JobAt(j).limit = 0
        /\ hist[j].call = Call("FetchHourlyOHLCVData", JobAt(j).symbol, VsCurrency, TRUE, 0)
        /\ hist[j].fetch = "data"

\* C28: the counter is never negative and never less than the number of
\* jobs in the two channels plus the jobs the two workers are processing;
\* while downloadWorker is about to send a job to the save queue, its
\* wg.Add(1) for the save stage has been counted and its own wg.Done() has
\* not, so the counter is at least 2; and while a job is in the save queue or
\* with saveWorker the counter is above zero.
C28_CounterInvariant ==
    /\ counter >= 0
    /\ counter >= Len(downloadChannel) + Len(saveChannel) + Busy(dlpc) + Busy(svpc)
    /\ dlpc = "send" =>
          /\ counter >= 2
          /\ hist[JobIndex(dlJob)].adds = 2
          /\ hist[JobIndex(dlJob)].dones = 0
    /\ (saveChannel # <<>> \/ Busy(svpc) = 1) => counter > 0

\* C28 witness: downloadWorker has sent a job to the save queue and not
\* yet called wg.Done(), saveWorker is idle and main waits: the counter is 2.
C28_Witness ==
    /\ mainpc = "wait"
    /\ dlpc = "defer" /\ hist[JobIndex(dlJob)].fwd = 1
    /\ Len(saveChannel) = 1 /\ downloadChannel = <<>>
    /\ svpc = "recv"
    /\ counter = 2

\* open, high, low and close of bar d are all zero
AllPricesZero(d) == d.Open = 0 /\ d.High = 0 /\ d.Low = 0 /\ d.Close = 0

\* C13: the series downloadWorker sends to the save queue for a job with
\* limit < 0 contains no bar whose open, high, low and close are all zero;
\* it is the fetched series with exactly those bars taken out, wherever they
\* are, the other bars (those with only some zero prices too) in their order.
C13_ZeroOHLCFiltered ==
    [][dlpc = "send" /\ dlpc' = "defer" /\ dlJob.limit < 0 =>
          LET sent == saveChannel'[Len(saveChannel')].data.bars
              fetched == dlFetched.data.bars
          IN /\ Len(saveChannel') = Len(saveChannel) + 1
             /\ \A i \in 1..Len(sent) : ~AllPricesZero(sent[i])
             /\ sent = SelectSeq(fetched, LAMBDA d : ~AllPricesZero(d))
      ]_vars

\* C13 witness: a full-history fetch of two consecutive zero bars and then a
\* bar whose open only is zero was forwarded as that last bar alone.
C13_Witness ==
    /\ dlpc = "defer"
    /\ dlJob.limit < 0
    /\ hist[JobIndex(dlJob)].fwd = 1
    /\ Len(dlFetched.data.bars) = 3
    /\ AllPricesZero(dlFetched.data.bars[1])
    /\ AllPricesZero(dlFetched.data.bars[2])
    /\ dlFetched.data.bars[3] = BarZeroOpen(3)
    /\ dlData.bars = <<BarZeroOpen(3)>>

\* C25: the save job downloadWorker sends for a job with limit >= 0 carries
\* the series exactly as the fetch returned it: the same bars in the same
\* order, those whose open, high, low and close are all zero too.
C25_FilterFullHistoryOnly ==
    [][dlpc = "send" /\ dlpc' = "defer" /\ dlJob.limit >= 0 =>
          /\ Len(saveChannel') = Len(saveChannel) + 1
          /\ saveChannel'[Len(saveChannel')].data = dlFetched.data
      ]_vars

\* C25 witness: a fetch with limit 0 returned a zero bar between two other
\* bars, and the three bars were forwarded.
C25_Witness ==
    /\ dlpc = "defer"
    /\ dlJob.limit = 0
    /\ hist[JobIndex(dlJob)].fwd = 1
    /\ Len(dlFetched.data.bars) = 3
    /\ AllPricesZero(dlFetched.data.bars[2])
    /\ ~AllPricesZero(dlFetched.data.bars[1]) /\ ~AllPricesZero(dlFetched.data.bars[3])
    /\ dlData = dlFetched.data

\* ------------------------------------------------------------------------
\* Properties of the backfill
\* ------------------------------------------------------------------------
\* isVolumeFromZeroInDataSet: no bar of the page has a non-zero VolumeFrom
isVolumeFromZeroInDataSet(data) ==
    \A i \in 1..Len(data) : data[i].VolumeFrom = 0

\* the bars of the first k answers, in the order they arrived
RECURSIVE Fetched(_)
Fetched(k) == IF k = 0 THEN <<>> ELSE Fetched(k - 1) \o pages[k].data.bars

\* the k-th call returned an empty page without error
IsEmptyPage(k) == pages[k].err = NoErr /\ Len(pages[k].data.bars) = 0

\* the k-th call returned a non-empty page all of whose bars have zero VolumeFrom
IsFakePage(k) ==
    /\ pages[k].err = NoErr
    /\ Len(pages[k].data.bars) > 0
    /\ isVolumeFromZeroInDataSet(pages[k].data.bars)

\* the k-th call returned a page with a bar of non-zero VolumeFrom
IsLivePage(k) ==
    /\ pages[k].err = NoErr
    /\ \E i \in 1..Len(pages[k].data.bars) : pages[k].data.bars[i].VolumeFrom # 0

\* C6: when a call fails, the backfill returns the error together with the
\* bars accumulated so far, and a nil slice only if nothing was accumulated.
C6_PartialResultOnError ==
    bfpc = "done" /\ retErr # NoErr =>
        /\ retData.bars = allData.bars
        /\ retData.isNil <=> Len(allData.bars) = 0

\* C8: a call that returns an empty page without error is the last call of
\* the backfill, which returns the bars accumulated before it and no error
\* (an empty result when it was the first call).
C8_EmptyPageEnds ==
    \A k \in 1..Len(pages) :
        IsEmptyPage(k) =>
            /\ k = Len(pages)
            /\ bfpc = "done"
            /\ retErr = NoErr
            /\ retData.bars = Fetched(k - 1)

\* C8 witness: the backfill has ended on an empty page after pages with bars.
C8_Witness ==
    /\ bfpc = "done"
    /\ Len(pages) >= 2
    /\ IsEmptyPage(Len(pages))
    /\ Len(retData.bars) > 0

\* C9: a call that returns a page whose bars all have zero VolumeFrom is the
\* last call of the backfill, which returns no error and none of that page's
\* bars: only the bars accumulated before it.
C9_FakePageEnds ==
    \A k \in 1..Len(pages) :
        IsFakePage(k) =>
            /\ k = Len(pages)
            /\ bfpc = "done"
            /\ retErr = NoErr
            /\ retData.bars = Fetched(k - 1)

\* C10: a page with at least one bar of non-zero VolumeFrom is accumulated
\* whole, its bars of zero VolumeFrom included, after the bars of the earlier
\* pages, and the loop goes on to another call.
C10_MixedPageKept ==
    \A k \in 1..Len(pages) :
        IsLivePage(k) =>
            /\ Len(allData.bars) >= Len(Fetched(k))
            /\ SubSeq(allData.bars, 1, Len(Fetched(k))) = Fetched(k)
            /\ k < Len(pages) \/ bfpc = "loop"

\* C10 witness: a page mixing zero and non-zero VolumeFrom was accumulated
\* whole and a further call was made.
C10_Witness ==
    \E k \in 1..Len(pages) :
        /\ IsLivePage(k)
        /\ \E i \in 1..Len(pages[k].data.bars) : pages[k].data.bars[i].VolumeFrom = 0
        /\ k < Len(pages)
        /\ SubSeq(allData.bars, 1, Len(Fetched(k))) = Fetched(k)

\* the bars of seq whose Time is t, in the order they have in seq
BarsAt(seq, t) == SelectSeq(seq, LAMBDA d : d.Time = t)

\* seq is in ascending order of Time
IsAscending(seq) ==
    \A i \in 1..Len(seq) : \A j \in (i + 1)..Len(seq) : seq[i].Time <= seq[j].Time

\* no call was answered with a page all of whose bars have zero VolumeFrom
NoFakePage == \A k \in 1..Len(pages) : ~IsFakePage(k)

\* C11: the series a backfill returns without error is in ascending order of
\* Time; it has the accumulated bars, each as often as it was accumulated; and
\* bars of equal Time are in the order in which they were accumulated. (Stated
\* for the runs without a page of zero VolumeFrom only, which C9 is about.)
C11_OutputSortedStable ==
    bfpc = "done" /\ retErr = NoErr /\ NoFakePage =>
        /\ IsAscending(retData.bars)
        /\ Len(retData.bars) = Len(Fetched(Len(pages)))
        /\ \A t \in StubTimes :
              BarsAt(retData.bars, t) = BarsAt(Fetched(Len(pages)), t)

\* C16: the series a backfill returns without error has no two bars of the
\* same Time, whatever pages the upstream served, overlapping ones too.
\* (Stated for the runs without a page of zero VolumeFrom only, which C9 is
\* about.)
C16_NoDuplicateTimestamps ==
    bfpc = "done" /\ retErr = NoErr /\ NoFakePage =>
        \A i \in 1..Len(retData.bars) : \A j \in (i + 1)..Len(retData.bars) :
            retData.bars[i].Time # retData.bars[j].Time

\* the earliest Time of the bars of the k-th answer
EarliestTime(k) ==
    CHOOSE t \in { pages[k].data.bars[i].Time : i \in 1..Len(pages[k].data.bars) } :
        \A i \in 1..Len(pages[k].data.bars) : t <= pages[k].data.bars[i].Time

\* C24: the call that follows a page with a bar of non-zero VolumeFrom uses
\* as its cursor the earliest Time of that page less one bucket (the
\* timestamps of the stub upstream are one bucket apart), and so a cursor
\* smaller than that of the call before.
C24_CursorProgress ==
    \A k \in 1..(Len(cursors) - 1) :
        IsLivePage(k) =>
            /\ cursors[k + 1] = EarliestTime(k) - 1
            /\ cursors[k + 1] < cursors[k]

\* every bar the upstream served to the k-th call is at or before the cursor
\* of that call
EndsAtOrBeforeCursor(k) ==
    \A i \in 1..Len(pages[k].data.bars) : pages[k].data.bars[i].Time <= cursors[k]

\* C29: against an upstream whose pages end at or before the requested
\* cursor, no call of a backfill uses the cursor of the call before it (a
\* repeated cursor gets the same page from such an upstream again, and the
\* loop does not end).
C29_BackfillTerminates ==
    (\A k \in 1..Len(pages) : EndsAtOrBeforeCursor(k)) =>
        \A k \in 1..(Len(cursors) - 1) : cursors[k + 1] # cursors[k]

KeyOf(r) == <<r.TradingSymbol, r.VsCurrency, r.Timestamp.sec>>
NumbersOf(r) == <<r.Open, r.High, r.Low, r.Close, r.VolumeFrom, r.VolumeTo>>

\* the timestamps of the bars of a save job, and the bars at one of them
TimesOf(job) == { job.data.bars[i].Time : i \in 1..Len(job.data.bars) }
JobBarsAt(job, t) == { job.data.bars[i] : i \in { k \in 1..Len(job.data.bars) :
                                                    job.data.bars[k].Time = t } }

\* the rows of a table with the key of job's bars at timestamp t
RowsAt(rows, job, t) ==
    { i \in 1..Len(rows) : KeyOf(rows[i]) = <<job.symbol, job.vsCurrency, t>> }

\* C14: when a job is saved a second time, both upserts without error and
\* the second series at the timestamps of the first (with the same or with
\* other numbers), the job's table has for each of these timestamps exactly
\* one row of the job's symbol and currency, and that row has the numbers of
\* a bar the second run carried for the timestamp.
C14_IdempotentUpsert ==
    [][(/\ dbRuns >= 1 /\ dbRuns' = dbRuns + 1
        /\ dbErr = NoErr /\ dbErr' = NoErr
        /\ TimesOf(dbJob') = TimesOf(dbJob))
       => LET rows == tables'[TableOf(dbJob'.timeframe)]
          IN \A t \in TimesOf(dbJob') :
                /\ Cardinality(RowsAt(rows, dbJob', t)) = 1
                /\ \A i \in RowsAt(rows, dbJob', t) :
                      \E b \in JobBarsAt(dbJob', t) :
                          NumbersOf(rows[i]) = NumbersOf(b)
      ]_vars

\* C14 witness: a row the first run inserted (ID 2) holds numbers of the
\* second run, which saved the same two timestamps with other numbers, and
\* the table has no further row for the job than one per timestamp.
C14_Witness ==
    LET rows == tables[TableOf(dbJob.timeframe)]
    IN /\ dbRuns = 2
       /\ dbErr = NoErr
       /\ TimesOf(dbJob) = {1, 2}
       /\ \E i \in 1..Len(rows) :
             /\ rows[i].ID = 2
             /\ rows[i].TradingSymbol = StoreSymbol
             /\ rows[i].Open > 20
       /\ Len(rows) = 3

\* the keys of the bars of a save job
KeysOf(job) == { <<job.symbol, job.vsCurrency, t>> : t \in TimesOf(job) }

\* the keys of the rows of a table
KeysIn(rows) == { KeyOf(rows[i]) : i \in 1..Len(rows) }

\* C15: an upsert adds no row for a bar whose key is in the job's table
\* already (the rows it adds have keys of the job that were not in the table);
\* every row keeps its place, its ID and its key columns; a row with the
\* key of none of the bars is unchanged; a row with the key of a bar has its
\* six numbers unchanged or those of such a bar (those of such a bar if the
\* upsert returned no error); the other tables are unchanged.
C15_UpsertFrame ==
    [][dbRuns' = dbRuns + 1
       => LET table == TableOf(dbJob'.timeframe)
              old == tables[table]
              new == tables'[table]
          IN /\ Len(new) >= Len(old)
             /\ \A i \in (Len(old) + 1)..Len(new) :
                   KeyOf(new[i]) \in KeysOf(dbJob') \ KeysIn(old)
             /\ Len(new) - Len(old) <= Cardinality(KeysOf(dbJob') \ KeysIn(old))
             /\ \A i \in 1..Len(old) :
                   /\ new[i].ID = old[i].ID
                   /\ new[i].TradingSymbol = old[i].TradingSymbol
                   /\ new[i].VsCurrency = old[i].VsCurrency
                   /\ new[i].Timestamp = old[i].Timestamp
                   /\ KeyOf(old[i]) \notin KeysOf(dbJob') => new[i] = old[i]
                   /\ KeyOf(old[i]) \in KeysOf(dbJob') =>
                         \/ dbErr' # NoErr /\ new[i] = old[i]
                         \/ \E b \in JobBarsAt(dbJob', old[i].Timestamp.sec) :
                               NumbersOf(new[i]) = NumbersOf(b)
             /\ \A t \in TableNames \ {table} : tables'[t] = tables[t]
      ]_vars

\* C15 witness: the second run has overwritten the numbers of the row the
\* first run inserted with ID 2, and left alone the row it inserted with
\* ID 3 and the row of the other symbol.
C15_Witness ==
    LET rows == tables[TableOf(dbJob.timeframe)]
    IN /\ dbRuns = 2
       /\ dbErr = NoErr
       /\ Len(dbJob.data.bars) = 1
       /\ Len(rows) = 3
       /\ rows[1] = OtherRow
       /\ rows[2].ID = 2 /\ rows[2].Open = 21
       /\ rows[2].Timestamp.sec = dbJob.data.bars[1].Time
       /\ rows[3].ID = 3 /\ rows[3].Open = 12

\* the rows of the queried table that have the symbol and quote currency of
\* the query
Matching == { i \in 1..Len(tables[qArgs.table]) :
                /\ tables[qArgs.table][i].TradingSymbol = qArgs.tradingSymbol
                /\ tables[qArgs.table][i].VsCurrency = qArgs.vsCurrency }

\* the rows returned are rows of the queried table, of the symbol and quote
\* currency of the query, none twice, in ascending order of timestamp
ReturnsMatchingAscending ==
    /\ \A i \in 1..Len(qRet.data) : \E k \in Matching : qRet.data[i] = tables[qArgs.table][k]
    /\ \A i \in 1..Len(qRet.data) : \A k \in (i + 1)..Len(qRet.data) :
          qRet.data[i].Timestamp.sec < qRet.data[k].Timestamp.sec

\* C23 as stated: a query returns only rows of the timeframe's table whose
\* symbol and quote currency equal the arguments, at most limit of them,
\* ordered ascending by timestamp.
C23_AsStated ==
    qpc = "done" /\ qRet.err = NoErr =>
        /\ ReturnsMatchingAscending
        /\ Len(qRet.data) <= qArgs.limit

\* C23 amended: a query returns only rows of the timeframe's table whose
\* symbol and quote currency equal the arguments, ordered ascending by
\* timestamp; for a limit above zero these are the limit earliest of the
\* matching rows (all of them if there are fewer); for a limit below zero
\* they are all the matching rows; for limit zero they are all of them or
\* none, as the release of gorm has it.
C23_QueryContract ==
    qpc = "done" /\ qRet.err = NoErr =>
        /\ ReturnsMatchingAscending
        /\ qArgs.limit > 0 =>
              /\ Len(qRet.data) = (IF qArgs.limit < Cardinality(Matching)
                                   THEN qArgs.limit ELSE Cardinality(Matching))
              /\ \A k \in Matching :
                    (\E i \in 1..Len(qRet.data) : qRet.data[i] = tables[qArgs.table][k])
                    \/ (\A i \in 1..Len(qRet.data) :
                           qRet.data[i].Timestamp.sec < tables[qArgs.table][k].Timestamp.sec)
        /\ qArgs.limit < 0 => Len(qRet.data) = Cardinality(Matching)
        /\ qArgs.limit = 0 => Len(qRet.data) \in {0, Cardinality(Matching)}

\* C23 witness: of two rows of the symbol, inserted in descending order of
\* timestamp beside a row of another symbol, a query with limit 1 returned
\* the earlier one.
C23_Witness ==
    /\ qpc = "done" /\ qRet.err = NoErr
    /\ qArgs.limit = 1 /\ qArgs.tradingSymbol = StoreSymbol
    /\ Len(tables[qArgs.table]) = 3
    /\ tables[qArgs.table][2].Timestamp.sec = 2
    /\ tables[qArgs.table][3].Timestamp.sec = 1
    /\ qRet.data = <<tables[qArgs.table][3]>>

\* row r is what bar b of job becomes: the job's symbol and quote currency,
\* the bar's Time as a UTC instant and its six numbers as they are
IsRowOf(r, job, b) ==
    /\ r.TradingSymbol = job.symbol
    /\ r.VsCurrency = job.vsCurrency
    /\ r.Timestamp = UnixUTC(b.Time)
    /\ NumbersOf(r) = NumbersOf(b)

\* C27: an upsert of a save job changes the table of the job's timeframe
\* only; every row it adds to that table or changes in it is what some bar
\* of the job becomes (the job's symbol and quote currency, the bar's
\* timestamp and its six numbers); and after an upsert without error the table
\* has, for every bar of the job, a row of the job's symbol and quote
\* currency at the bar's timestamp.
C27_TimeframeRouting ==
    [][dbRuns' = dbRuns + 1
       => LET job == dbJob'
              table == TableOf(job.timeframe)
              old == tables[table]
              new == tables'[table]
          IN /\ \A t \in TableNames \ {table} : tables'[t] = tables[t]
             /\ \A i \in 1..Len(new) :
                   (i > Len(old) \/ new[i] # old[i]) =>
                       \E k \in 1..Len(job.data.bars) : IsRowOf(new[i], job, job.data.bars[k])
             /\ dbErr' = NoErr =>
                   \A k \in 1..Len(job.data.bars) :
                       \E i \in 1..Len(new) :
                           KeyOf(new[i]) = <<job.symbol, job.vsCurrency, job.data.bars[k].Time>>
      ]_vars

\* C27 witness: a daily job of two bars was saved: the daily table has a
\* row for each bar, with the bar's numbers, and the minute and the hourly
\* table hold what they held.
C27_Witness ==
    /\ dbRuns = 1 /\ dbErr = NoErr
    /\ dbJob.timeframe = "daily"
    /\ Len(dbJob.data.bars) = 2
    /\ Len(tables[DailyTable]) = 3
    /\ IsRowOf(tables[DailyTable][2], dbJob, dbJob.data.bars[1])
    /\ IsRowOf(tables[DailyTable][3], dbJob, dbJob.data.bars[2])
    /\ tables[MinuteTable] = <<OtherRow>>
    /\ tables[HourlyTable] = <<OtherRow>>

\* the bars of a job that were written when the store rejected the model
\* at index rejectAt: those before it, or all when none was rejected
WrittenCount(job, rejectAt) ==
    IF rejectAt \in 1..Len(job.data.bars) THEN rejectAt - 1 ELSE Len(job.data.bars)

\* the key of the i-th bar of a job
BarKey(job, i) == <<job.symbol, job.vsCurrency, job.data.bars[i].Time>>

\* C30: an upsert returns an error exactly when the store rejected a row of
\* the batch. The rows before the rejected one (all rows, when none was
\* rejected) are written in batch order: each of their keys has a row with
\* the numbers of the last of them that has the key, and the rows added to
\* the table are those of the keys that were not in it, in the order in which
\* the keys first come in the batch. The rejected row and the rows after it
\* are not written: a key that only they have has no row if it had none, and
\* every row with a key of none of the written bars is unchanged.
C30_NonAtomicBatch ==
    [][dbRuns' = dbRuns + 1
       => LET job == dbJob'
              bars == job.data.bars
              old == tables[TableOf(job.timeframe)]
              new == tables'[TableOf(job.timeframe)]
              p == WrittenCount(job, dbRejectAt')
              writtenKeys == { BarKey(job, i) : i \in 1..p }
              firsts == SelectSeq([i \in 1..p |-> i],
                                  LAMBDA i : /\ BarKey(job, i) \notin KeysIn(old)
                                             /\ \A k \in 1..(i - 1) :
                                                   BarKey(job, k) # BarKey(job, i))
          IN /\ dbErr' # NoErr <=> dbRejectAt' \in 1..Len(bars)
             /\ \A i \in 1..p :
                   (\A k \in (i + 1)..p : BarKey(job, k) # BarKey(job, i)) =>
                       \E r \in 1..Len(new) : /\ KeyOf(new[r]) = BarKey(job, i)
                                              /\ NumbersOf(new[r]) = NumbersOf(bars[i])
             /\ Len(new) = Len(old) + Len(firsts)
             /\ \A m \in 1..Len(firsts) : KeyOf(new[Len(old) + m]) = BarKey(job, firsts[m])
             /\ \A r \in 1..Len(old) : KeyOf(old[r]) \notin writtenKeys => new[r] = old[r]
      ]_vars

\* C30 witness: the store rejected the second of two bars at different
\* timestamps: the upsert returned the error, the first bar has its row and
\* the second has none.
C30_Witness ==
    /\ dbRuns = 1 /\ dbErr # NoErr /\ dbRejectAt = 2
    /\ Len(dbJob.data.bars) = 2
    /\ BarKey(dbJob, 1) # BarKey(dbJob, 2)
    /\ Len(tables[TableOf(dbJob.timeframe)]) = 2
    /\ IsRowOf(tables[TableOf(dbJob.timeframe)][2], dbJob, dbJob.data.bars[1])
    /\ BarKey(dbJob, 2) \notin KeysIn(tables[TableOf(dbJob.timeframe)])

\* the index of the last bar of a job at timestamp t
LastBarAt(job, t) ==
    CHOOSE i \in 1..Len(job.data.bars) :
        /\ job.data.bars[i].Time = t
        /\ \A k \in (i + 1)..Len(job.data.bars) : job.data.bars[k].Time # t

\* C31: after an upsert without error of a series, the job's table has for
\* every timestamp of the series, also one that several bars of the
\* series have, exactly one row of the job's symbol and quote currency, and that
\* row has the six numbers of the last bar of the series at the timestamp.
C31_LastDuplicateWins ==
    [][dbRuns' = dbRuns + 1 /\ dbErr' = NoErr
       => LET job == dbJob'
              rows == tables'[TableOf(job.timeframe)]
          IN \A t \in TimesOf(job) :
                /\ Cardinality(RowsAt(rows, job, t)) = 1
                /\ \A r \in RowsAt(rows, job, t) :
                      NumbersOf(rows[r]) = NumbersOf(job.data.bars[LastBarAt(job, t)])
      ]_vars

\* C31 witness: a series of two bars at the same timestamp was saved into
\* a table that had no row for it: the table has one new row, with the
\* numbers of the second bar.
C31_Witness ==
    LET rows == tables[TableOf(dbJob.timeframe)]
    IN /\ dbRuns = 1 /\ dbErr = NoErr
       /\ Len(dbJob.data.bars) = 2
       /\ dbJob.data.bars[1].Time = dbJob.data.bars[2].Time
       /\ NumbersOf(dbJob.data.bars[1]) # NumbersOf(dbJob.data.bars[2])
       /\ Len(rows) = 2
       /\ IsRowOf(rows[2], dbJob, dbJob.data.bars[2])

\* a fetch that returned no bar and no error
IsEmptySuccess(r) == r.err = NoErr /\ Len(r.data.bars) = 0

\* stores in which the table of a save job has rows of the job's own
\* symbol, next to the row of another symbol every table has
StoresWithRowsOf(job) ==
    { UpsertJob(Database([t \in TableNames |-> <<OtherRow>>], [t \in TableNames |-> 2]),
                [job EXCEPT !.data = Slice(StoreSeries(times, 1))], 0).db :
        times \in UNION { TimePatterns(n) : n \in 0..MaxBatchLen } }

\* C32: a job whose fetch returned no bar and no error goes through both
\* stages like any forwarded job: downloadWorker does not drop it, adds
\* one to the completion counter, sends one save job with the empty series
\* and takes one off the counter; saveWorker performs one upsert for it,
\* which returns no error and leaves every row of every table as it is,
\* whatever the tables hold, and takes one off the counter.
C32_EmptySuccessForwarded ==
    [][/\ (IsEmptySuccess(dlFetched) /\ dlpc' # dlpc) =>
             /\ dlpc = "check" =>
                   dlpc' = "add" /\ Len(dlData'.bars) = 0 /\ counter' = counter
             /\ dlpc = "add" =>
                   dlpc' = "send" /\ counter' = counter + 1
             /\ dlpc = "send" =>
                   /\ dlpc' = "defer"
                   /\ Len(saveChannel') = Len(saveChannel) + 1
                   /\ saveChannel'[Len(saveChannel')] =
                         [symbol |-> dlJob.symbol, vsCurrency |-> dlJob.vsCurrency,
                          timeframe |-> dlJob.timeframe, data |-> dlFetched.data]
                   /\ hist'[JobIndex(dlJob)].fwd = 1
             /\ dlpc = "defer" =>
                   /\ counter' = counter - 1
                   /\ hist[JobIndex(dlJob)].fwd = 1
                   /\ hist[JobIndex(dlJob)].adds = 2
       /\ (Busy(svpc) = 1 /\ Len(svJob.data.bars) = 0 /\ svpc' # svpc) =>
             /\ svpc = "upsert" =>
                   /\ svpc' = "defer"
                   /\ svErr' = NoErr
                   /\ hist'[JobIndex(svJob)].upserts = 1
                   /\ tables' = tables
                   /\ \A db \in StoresWithRowsOf(svJob) \cup {Database(tables, nextID)} :
                      \A rejectAt \in 0..MaxBatchLen :
                         UpsertJob(db, svJob, rejectAt) = [db |-> db, err |-> NoErr]
             /\ svpc = "defer" =>
                   /\ counter' = counter - 1
                   /\ hist'[JobIndex(svJob)].adds = 2
                   /\ hist'[JobIndex(svJob)].dones = hist[JobIndex(svJob)].dones + 1
                   /\ hist'[JobIndex(svJob)].upserts = 1
      ]_vars

\* C32 witness: the fetch of a job with limit 0 returned nil and no error;
\* the job was forwarded with the nil series, downloadWorker has finished
\* it, and saveWorker has performed its upsert, without error, and is about
\* to mark it done: two additions and one completion so far.
C32_Witness ==
    /\ svpc = "defer"
    /\ svJob.data = NilSlice
    /\ svErr = NoErr
    /\ Busy(dlpc) = 0
    /\ LET j == JobIndex(svJob)
       IN /\ limits[j] = 0
          /\ hist[j].fetches = 1 /\ hist[j].fetch = "data"
          /\ hist[j].fwd = 1 /\ hist[j].upserts = 1 /\ hist[j].save = "ok"
          /\ hist[j].adds = 2 /\ hist[j].dones = 1

\* ------------------------------------------------------------------------
\* Properties of one page fetch
\* ------------------------------------------------------------------------
\* C18: a page fetch returns an error exactly when the transport call
\* failed, the body failed to decode, or the envelope's Response is "Error",
\* and then it returns no bars; for an "Error" envelope the error carries the
\* envelope's Message; in every other case, whatever the status code of the
\* response, it returns the envelope's bars and a nil error.
C18_ErrorClassification ==
    apipc = "done" =>
        LET failed == \/ apiHttp.getFails
                      \/ apiHttp.decodeFails
                      \/ apiHttp.Response = "Error"
        IN /\ apiRet.err # NoErr <=> failed
           /\ failed => apiRet.data = NilSlice
           /\ (~apiHttp.getFails /\ ~apiHttp.decodeFails /\ apiHttp.Response = "Error")
                 => apiRet.err = ErrorFetchingData(apiHttp.Message)
           /\ ~failed => apiRet.data = apiHttp.Data

\* C18 witness: a response of status code 500 whose envelope is not an
\* "Error" one gave its bars and no error.
C18_Witness ==
    /\ apipc = "done"
    /\ ~apiHttp.getFails /\ ~apiHttp.decodeFails
    /\ apiHttp.StatusCode = 500
    /\ apiHttp.Response = "Success"
    /\ apiRet.err = NoErr
    /\ Len(apiRet.data.bars) = 1

\* C19: the limit of every URL the client requests is at most apiMaxLimit,
\* whatever the limit of the job.
C19_PageSizeCapped ==
    apipc \in {"get", "done"} => apiReq.limit <= apiMaxLimit

====
